---- MODULE Spec2Model ----
(***************************************************************************)
(* Model of the lalia conversation core.                                   *)
(*                                                                         *)
(*   MessageBuffer   src/src/lalia/chat/messages/buffer.py  (206-349)      *)
(*   Folds           src/src/lalia/chat/messages/folds.py                  *)
(*   tags/predicates src/src/lalia/chat/messages/tags.py                   *)
(*   Session         src/src/lalia/chat/session.py                         *)
(*                                                                         *)
(* The buffer's fold engine is the Folds class of folds.py (the one whose  *)
(* fields are message_states / pending_states and which the tests          *)
(* inspect through buffer.folds).                                          *)
(***************************************************************************)
EXTENDS Integers, Sequences, FiniteSets, TLC

VARIABLES
    messages,               \* MessageBuffer.messages (the committed segment)
    pending,                \* MessageBuffer.pending
    message_states,         \* Folds.message_states
    pending_states,         \* Folds.pending_states
    folds,                  \* Folds._folds (the fold stack, oldest first)
    default_fold_tags,      \* Folds.default_fold_tags
    transactional_bounds,   \* MessageBuffer._transactional_bounds
    expand_frames,          \* open expand(tags) blocks, innermost last
    expand_exit,            \* how the last expand block was left
    script,                 \* operations the caller still runs in sequence
    scenario,               \* name of the sequence being run, or "none"
    snap,                   \* buffer state when the sequence was started
    budget,                 \* the caller's last call of a budgeting function
    parser,                 \* LLMParser and its running parse call
    registry,               \* TagRenderer and PredicateRegistry class state
    held,                   \* tags the caller made, predicates it derived
    algebra,                \* the caller's last predicate expression
    config,                 \* Session: autocommit, rollback_on_error, caps
    pc,                     \* Session: where the running call stands
    frame,                  \* Session: method that called _handle_choice
    iteration,              \* complete_flow: iterations of the loop begun
    attempt,                \* _handle_function_call_message: loop index i
    call,                   \* _complete_choices: the DispatchCall
    choice,                 \* _handle_choice: the choice being handled
    function_call_message,  \* _handle_function_call_message: its message
    call_index,             \* where that message sits in pending (1-based)
    outcome,                \* (message, finish_reason) of _handle_choice
    completion,             \* Completion returned to the caller
    exception,              \* exception in flight or raised to the caller
    trace                   \* what the run did so far (for the properties)

bufVars == <<messages, pending, message_states, pending_states, folds,
             default_fold_tags, transactional_bounds, expand_frames,
             expand_exit>>

pureVars == <<budget, parser, registry, held, algebra>>

callerVars == <<script, scenario, snap, pureVars>>

sessVars == <<config, pc, frame, iteration, attempt, call, choice,
              function_call_message, call_index, outcome, completion,
              exception, trace>>

vars == <<bufVars, callerVars, sessVars>>

----------------------------------------------------------------------------
(* Bounds of the model.                                                    *)

MaxMsgs == 2
MaxLen == 4
MaxFolds == 1
MaxBounds == 2
MaxExpandDepth == 1
MaxIterations == 2
MaxAttempts == 2

----------------------------------------------------------------------------
(* Tags, tag patterns and predicates (tags.py).                            *)

Tag(k, v) == [key |-> k, value |-> v]

TagPattern(k, v) == [key |-> k, value |-> v]

\* Pairs <<p, s>> of distinct literals of the model where s starts with p.
ProperPrefixes ==
    {<<"function", "function_call">>, <<"f", "function">>,
     <<"f", "function_call">>, <<"f", "f_response_response">>}

\* re.Pattern.match: the pattern has to match at the start of the string.
\* The model's patterns are ".*" and literals without metacharacters.
ReMatch(pattern, string) ==
    \/ pattern = ".*"
    \/ pattern = string
    \/ <<pattern, string>> \in ProperPrefixes

\* PredicateRegistry.derive_predicate, TagPattern case: matches_any_tag.
matches_any_tag(tag_pattern, tags) ==
    \E tag \in tags : /\ ReMatch(tag_pattern.key, tag.key)
                      /\ ReMatch(tag_pattern.value, tag.value)

\* TagPattern.from_tag_like for a Tag: the key and value become patterns.
from_tag_like(tag) == TagPattern(tag.key, tag.value)

ErrorPattern == TagPattern("error", ".*")
FunctionPattern == TagPattern("function", ".*")

\* A tags argument: None, a set of tag patterns, or a callable predicate
\* (an _Or/_And/_Not over registry predicates).
NoTags == [kind |-> "none", pats |-> {}]
TagSet(pats) == [kind |-> "set", pats |-> pats]
OrOf(pats) == [kind |-> "or", pats |-> pats]

OperatorKinds == {"or", "and", "not"}

\* callable(tags)
IsCallable(tags) == tags.kind \in OperatorKinds

\* Python truthiness of a tags argument: None and the empty set are falsy,
\* a predicate object is truthy.
Truthy(tags) == \/ IsCallable(tags)
                \/ (tags.kind = "set" /\ tags.pats # {})

\* folds.py derive_tag_predicate: a non-callable is converted to a set of
\* patterns and wrapped in a new lambda (any); a callable is returned as is.
derive_tag_predicate(tags) ==
    IF IsCallable(tags) THEN tags ELSE [kind |-> "any", pats |-> tags.pats]

\* Calling a predicate on a message's tag set: the lambda of
\* derive_tag_predicate, _Or.__call__, _And.__call__, _Not.__call__.
Holds(predicate, tags) ==
    CASE predicate.kind = "any" ->
            \E p \in predicate.pats : matches_any_tag(p, tags)
      [] predicate.kind = "or" ->
            \E p \in predicate.pats : matches_any_tag(p, tags)
      [] predicate.kind = "and" ->
            \A p \in predicate.pats : matches_any_tag(p, tags)
      [] predicate.kind = "not" ->
            ~ \E p \in predicate.pats : matches_any_tag(p, tags)
      [] OTHER -> FALSE

\* Equality of two predicate objects, the left one newly derived: a lambda
\* is equal only to itself, _PredicateOperator.__eq__ compares the ids of
\* the components whatever the operator.
PredicateEq(new, old) ==
    /\ new.kind \in OperatorKinds
    /\ old.kind \in OperatorKinds
    /\ new.pats = old.pats

----------------------------------------------------------------------------
(* Messages (messages.py).                                                 *)

FunctionName == "f"

UserMessage == [role |-> "user", content |-> "text", tags |-> {}]

ResultMessage ==
    [role |-> "function", content |-> "result",
     tags |-> {Tag("function", FunctionName)}]

ErrorMessage ==
    [role |-> "function", content |-> "error",
     tags |-> {Tag("function", FunctionName), Tag("error", "function_call")}]

MessagePool == {UserMessage, ErrorMessage}

\* folds.py DEFAULT_FOLD_TAGS and buffer.py DEFAULT_FOLD_TAGS
FoldsDefaultFoldTags == TagSet({ErrorPattern})
BufferDefaultFoldTags == OrOf({FunctionPattern, ErrorPattern})

TagArgs == {NoTags, TagSet({}), TagSet({ErrorPattern}),
            OrOf({FunctionPattern, ErrorPattern})}

----------------------------------------------------------------------------
(* Fold engine (folds.py).                                                 *)

Fold(predicate, state) == [predicate |-> predicate, state |-> state]

\* FoldState.__invert__
InvertState(state) == IF state = "FOLDED" THEN "UNFOLDED" ELSE "FOLDED"

\* Fold.__invert__
InvertFold(fold) == Fold(fold.predicate, InvertState(fold.state))

\* Fold.__eq__ (dataclass equality on predicate and state)
FoldEq(new, old) ==
    /\ PredicateEq(new.predicate, old.predicate)
    /\ new.state = old.state

\* `fold in self._folds`
FoldIn(fold, stack) == \E i \in 1..Len(stack) : FoldEq(fold, stack[i])

\* list.remove: drops the first equal element
RemoveFold(fold, stack) ==
    LET i == CHOOSE k \in 1..Len(stack) :
                /\ FoldEq(fold, stack[k])
                /\ \A j \in 1..(k - 1) : ~ FoldEq(fold, stack[j])
    IN  SubSeq(stack, 1, i - 1) \o SubSeq(stack, i + 1, Len(stack))

\* Folds._default_folds
default_folds(dft) ==
    IF Truthy(dft)
    THEN Fold(derive_tag_predicate(dft), "FOLDED")
    ELSE Fold([kind |-> "false", pats |-> {}], "UNFOLDED")

RECURSIVE FirstMatch(_, _, _)
\* next(fold.state for fold in reversed(stack) if fold.predicate(tags))
FirstMatch(stack, tags, otherwise) ==
    IF stack = <<>> THEN otherwise
    ELSE IF Holds(stack[Len(stack)].predicate, tags)
         THEN stack[Len(stack)].state
         ELSE FirstMatch(SubSeq(stack, 1, Len(stack) - 1), tags, otherwise)

\* get_fold_state that asks the default fold before the stack
get_fold_state_default_first(stack, dft, message) ==
    FirstMatch(stack \o <<default_folds(dft)>>, message.tags, "UNFOLDED")

\* Folds.get_fold_state: newest entry first, the default fold last
get_fold_state(stack, dft, message) ==
    FirstMatch(<<default_folds(dft)>> \o stack, message.tags, "UNFOLDED")

\* Folds.update, the inner get_fold_states
get_fold_states(stack, dft, msgs) ==
    [i \in 1..Len(msgs) |-> get_fold_state(stack, dft, msgs[i])]

\* Folds.fold: the stack after the call
FoldStack(stack, tags) ==
    IF ~ Truthy(tags) THEN <<>>
    ELSE LET fold == Fold(derive_tag_predicate(tags), "FOLDED")
         IN  IF FoldIn(fold, stack)
             THEN Append(RemoveFold(fold, stack), fold)
             ELSE Append(stack, fold)

\* Folds.unfold: the stack after the call
UnfoldStack(stack, tags) ==
    IF ~ Truthy(tags) THEN <<>>
    ELSE LET unfold == Fold(derive_tag_predicate(tags), "UNFOLDED")
         IN  IF FoldIn(InvertFold(unfold), stack)
             THEN RemoveFold(InvertFold(unfold), stack)
             ELSE Append(stack, unfold)

----------------------------------------------------------------------------
(* Message buffer (buffer.py).  Callers of the model leave the transaction *)
(* calls (commit, rollback, revert, clear) outside expand blocks, as the   *)
(* session does.                                                           *)

\* list slicing seq[start:end] with 0-based bounds, clipped as Python does
Slice(seq, start, end) ==
    LET e == IF end > Len(seq) THEN Len(seq) ELSE end
    IN  IF start >= e THEN <<>> ELSE SubSeq(seq, start + 1, e)

BufferState ==
    [messages |-> messages, pending |-> pending,
     message_states |-> message_states, pending_states |-> pending_states,
     folds |-> folds, transactional_bounds |-> transactional_bounds]

NoSnap ==
    [messages |-> <<>>, pending |-> <<>>, message_states |-> <<>>,
     pending_states |-> <<>>, folds |-> <<>>, transactional_bounds |-> <<>>]

\* No budgeting function has been called.
NoBudget ==
    [op |-> "none", messages |-> <<>>, token_threshold |-> 0,
     completion_buffer |-> 0, functions |-> <<>>, exclude_tags |-> NoTags,
     raised |-> FALSE, result |-> <<>>, tokens |-> 0, previous |-> 0]

\* None of Python, where the model needs it as a record.
NoObject == [none |-> TRUE]

\* No LLMParser.parse call is running or finished.
NoParse ==
    [pc |-> "idle", llms |-> 0, max_retries |-> 0, input |-> "",
     payload |-> "", unwrap_response |-> "identity", llm |-> 0, retry |-> 0,
     parsed |-> NoObject, error_messages |-> <<>>, exception |-> "none",
     requests |-> 0, corrections |-> <<>>, result |-> NoObject,
     raised |-> "none", llm_parser |-> "None", llm_parser_given |-> "None"]

\* renderers.py TagColor, in the order of the enumeration.
TagColor ==
    <<"red", "green", "yellow", "blue", "magenta", "cyan", "blue3",
      "turquoise4">>

\* Class state after the modules are imported: TagRenderer.colors and
\* TagRenderer.key_registry (renderers.py 193-194) and
\* PredicateRegistry._predicates, which holds the two patterns composed
\* into buffer.py DEFAULT_FOLD_TAGS.
InitRegistry ==
    [colors |-> TagColor, key_registry |-> {},
     predicates |-> {[kind |-> "TagPattern", of |-> FunctionPattern],
                     [kind |-> "TagPattern", of |-> ErrorPattern]}]

\* No predicate expression has been evaluated.
NoAlgebra ==
    [op |-> "none", a |-> NoObject, b |-> NoObject, tags |-> {},
     raised |-> "none", value |-> FALSE]

\* The caller's program: free calls in any order, or a fixed sequence of
\* calls (script) run to its end.  Track(op) is the caller making call op.
Track(op) ==
    IF script = <<>>
    THEN /\ script' = <<>>
         /\ scenario' = "none"
         /\ snap' = NoSnap
         /\ UNCHANGED pureVars
    ELSE /\ Head(script) = op
         /\ script' = Tail(script)
         /\ UNCHANGED <<scenario, snap, pureVars>>

\* MessageBuffer.add / add_message and Folds.add
MessageBuffer_add(message) ==
    /\ pending' = Append(pending, message)
    /\ pending_states' =
           Append(pending_states,
                  get_fold_state(folds, default_fold_tags, message))
    /\ UNCHANGED <<messages, message_states, folds, default_fold_tags,
                   transactional_bounds, expand_frames, expand_exit>>

\* MessageBuffer.commit and Folds.commit
MessageBuffer_commit ==
    /\ transactional_bounds' =
           Append(transactional_bounds,
                  <<Len(messages), Len(messages) + Len(pending)>>)
    /\ messages' = messages \o pending
    /\ pending' = <<>>
    /\ message_states' = message_states \o pending_states
    /\ pending_states' = <<>>
    /\ UNCHANGED <<folds, default_fold_tags, expand_frames, expand_exit>>

\* rollback that also forgets the transactional bounds
MessageBuffer_rollback_dropping_bounds ==
    /\ pending' = <<>>
    /\ pending_states' = <<>>
    /\ transactional_bounds' = <<>>
    /\ UNCHANGED <<messages, message_states, folds, default_fold_tags,
                   expand_frames, expand_exit>>

\* rollback that forgets Folds.rollback: the pending fold states stay
MessageBuffer_rollback_without_folds ==
    /\ pending' = <<>>
    /\ UNCHANGED <<messages, message_states, pending_states, folds,
                   default_fold_tags, transactional_bounds, expand_frames,
                   expand_exit>>

\* MessageBuffer.rollback and Folds.rollback
MessageBuffer_rollback ==
    /\ pending' = <<>>
    /\ pending_states' = <<>>
    /\ UNCHANGED <<messages, message_states, folds, default_fold_tags,
                   transactional_bounds, expand_frames, expand_exit>>

\* MessageBuffer.revert and Folds.revert
MessageBuffer_revert ==
    /\ IF transactional_bounds # <<>>
       THEN LET bound == transactional_bounds[Len(transactional_bounds)]
                start == bound[1]
                end == bound[2]
            IN  /\ transactional_bounds' =
                       SubSeq(transactional_bounds, 1,
                              Len(transactional_bounds) - 1)
                /\ pending' = Slice(messages, start, end) \o pending
                /\ pending_states' =
                       Slice(message_states, start, end) \o pending_states
                /\ message_states' = Slice(message_states, 0, start)
                /\ UNCHANGED messages
       ELSE UNCHANGED <<messages, pending, message_states, pending_states,
                        transactional_bounds>>
    /\ UNCHANGED <<folds, default_fold_tags, expand_frames, expand_exit>>

\* MessageBuffer.clear: self.folds = Folds()
MessageBuffer_clear ==
    /\ messages' = <<>>
    /\ pending' = <<>>
    /\ transactional_bounds' = <<>>
    /\ message_states' = <<>>
    /\ pending_states' = <<>>
    /\ folds' = <<>>
    /\ default_fold_tags' = FoldsDefaultFoldTags
    /\ UNCHANGED <<expand_frames, expand_exit>>

\* MessageBuffer.fold -> Folds.fold, ending in Folds.update
MessageBuffer_fold(tags) ==
    /\ folds' = FoldStack(folds, tags)
    /\ message_states' = get_fold_states(folds', default_fold_tags, messages)
    /\ pending_states' = get_fold_states(folds', default_fold_tags, pending)
    /\ UNCHANGED <<messages, pending, default_fold_tags,
                   transactional_bounds, expand_frames, expand_exit>>

\* MessageBuffer.unfold -> Folds.unfold, ending in Folds.update
MessageBuffer_unfold(tags) ==
    /\ folds' = UnfoldStack(folds, tags)
    /\ message_states' = get_fold_states(folds', default_fold_tags, messages)
    /\ pending_states' = get_fold_states(folds', default_fold_tags, pending)
    /\ UNCHANGED <<messages, pending, default_fold_tags,
                   transactional_bounds, expand_frames, expand_exit>>

\* MessageBuffer.expand / Folds.expand up to the yield: unfold(tags)
MessageBuffer_expand_enter(tags) ==
    /\ folds' = UnfoldStack(folds, tags)
    /\ message_states' = get_fold_states(folds', default_fold_tags, messages)
    /\ pending_states' = get_fold_states(folds', default_fold_tags, pending)
    /\ expand_frames' = Append(expand_frames, tags)
    /\ UNCHANGED <<messages, pending, default_fold_tags,
                   transactional_bounds, expand_exit>>

\* Folds.expand after the yield when the block ends normally: fold(tags)
MessageBuffer_expand_exit_normal ==
    /\ expand_frames # <<>>
    /\ LET tags == expand_frames[Len(expand_frames)]
       IN  folds' = FoldStack(folds, tags)
    /\ message_states' = get_fold_states(folds', default_fold_tags, messages)
    /\ pending_states' = get_fold_states(folds', default_fold_tags, pending)
    /\ expand_exit' = [how |-> "normal", closes |-> 1]
    /\ expand_frames' = SubSeq(expand_frames, 1, Len(expand_frames) - 1)
    /\ UNCHANGED <<messages, pending, default_fold_tags,
                   transactional_bounds>>

\* Folds.expand when the block raises: the exception is thrown into the
\* generator at the yield, which has no try/finally around it, so the
\* statement after the yield is not run.
MessageBuffer_expand_exit_raise ==
    /\ expand_frames # <<>>
    /\ expand_exit' = [how |-> "raise", closes |-> 0]
    /\ expand_frames' = SubSeq(expand_frames, 1, Len(expand_frames) - 1)
    /\ UNCHANGED <<messages, pending, message_states, pending_states, folds,
                   default_fold_tags, transactional_bounds>>

\* One generator of Folds.apply: zip(segment, states, strict=True) yields
\* the pairs up to the shorter length and then raises ValueError if the
\* lengths differ; the generator keeps the messages whose state is UNFOLDED.
RECURSIVE KeepUnfolded(_, _, _)
KeepUnfolded(msgs, states, n) ==
    IF n = 0 THEN <<>>
    ELSE KeepUnfolded(msgs, states, n - 1)
             \o (IF states[n] = "UNFOLDED" THEN <<msgs[n]>> ELSE <<>>)

apply(msgs, states) ==
    LET n == IF Len(msgs) < Len(states) THEN Len(msgs) ELSE Len(states)
    IN  [items |-> KeepUnfolded(msgs, states, n),
         raised |-> Len(msgs) # Len(states)]

\* MessageBuffer.__iter__: chain(committed generator, pending generator);
\* what a full iteration yields and whether it ends in ValueError.
iter ==
    LET committed == apply(messages, message_states)
        uncommitted == apply(pending, pending_states)
    IN  IF committed.raised
        THEN committed
        ELSE [items |-> committed.items \o uncommitted.items,
              raised |-> uncommitted.raised]

\* MessageBuffer.__len__
len == Len(messages \o pending)

\* Python's None, where a string, a message, a function call, a choice, a
\* dispatch call or a completion is expected
None == "None"
NoMessage == [role |-> None, content |-> None, tags |-> {}]
NoFunctionCall ==
    [name |-> None, arguments |-> None, function |-> None,
     parsing_error_messages |-> <<>>]
NoChoice ==
    [message |-> NoMessage, function_call |-> NoFunctionCall,
     finish_reason |-> None]
NoDispatchCall == [context |-> {}, finish_reason |-> None]
NoCompletion == [message |-> NoMessage, finish_reason |-> None]

\* FinishReason values (finish_reason.py)
STOP == "stop"
LENGTH == "length"
FUNCTION_CALL == "function_call"
DELEGATE == "delegate"
FUNCTION_CALL_FAILURE == "function_call_failure"
FUNCTION_CALL_ERROR == "function_call_error"
FAILURE == "failure"

\* What the run of a session call has done so far.
NoResult == [value |-> None, error |-> None, finish_reason |-> None]

NoTrace ==
    [dispatches |-> 0, failures |-> 0, stops |-> 0, resets |-> 0, added |-> 0,
     commits |-> 0, rollbacks |-> 0, result |-> NoResult,
     start |-> [messages |-> <<>>, pending |-> <<>>],
     thrown |-> [exception |-> None, pending |-> <<>>]]

\* The session variables while no call is running.
NotRunning ==
    /\ pc = "idle"
    /\ frame = None
    /\ iteration = 0
    /\ attempt = 0
    /\ call = NoDispatchCall
    /\ choice = NoChoice
    /\ function_call_message = NoChoice
    /\ call_index = 0
    /\ outcome = NoCompletion
    /\ completion = NoCompletion
    /\ exception = None
    /\ trace = NoTrace

\* MessageBuffer.__init__ with no messages and Folds.__post_init__
InitBuffer ==
    /\ messages = <<>>
    /\ pending = <<>>
    /\ message_states = <<>>
    /\ pending_states = <<>>
    /\ folds = <<>>
    /\ default_fold_tags \in {BufferDefaultFoldTags, FoldsDefaultFoldTags}
    /\ transactional_bounds = <<>>
    /\ expand_frames = <<>>
    /\ expand_exit = [how |-> "none", closes |-> 0]
    /\ script = <<>>
    /\ scenario = "none"
    /\ snap = NoSnap
    /\ budget = NoBudget
    /\ parser = NoParse
    /\ registry = InitRegistry
    /\ held = <<>>
    /\ algebra = NoAlgebra
    /\ config = [autocommit |-> TRUE, rollback_on_error |-> TRUE,
                 max_iterations |-> 1, max_function_call_attempts |-> 1]
    /\ NotRunning

\* The calls a program makes on a buffer.  Each is the buffer method, made
\* by the caller (Track), within the bounds of the model.
add(message) ==
    /\ Len(messages) + Len(pending) < MaxMsgs
    /\ MessageBuffer_add(message)
    /\ Track("add")
    /\ UNCHANGED sessVars

commit ==
    /\ expand_frames = <<>>
    /\ Len(transactional_bounds) < MaxBounds
    /\ Len(messages) + Len(pending) <= MaxLen
    /\ MessageBuffer_commit
    /\ Track("commit")
    /\ UNCHANGED sessVars

rollback ==
    /\ expand_frames = <<>>
    /\ MessageBuffer_rollback
    /\ Track("rollback")
    /\ UNCHANGED sessVars

revert ==
    /\ expand_frames = <<>>
    /\ IF transactional_bounds = <<>> THEN TRUE
       ELSE LET bound == transactional_bounds[Len(transactional_bounds)]
            IN  Len(messages) + Len(Slice(messages, bound[1], bound[2]))
                    + Len(pending) <= MaxLen
    /\ MessageBuffer_revert
    /\ Track("revert")
    /\ UNCHANGED sessVars

clear ==
    /\ expand_frames = <<>>
    /\ MessageBuffer_clear
    /\ Track("clear")
    /\ UNCHANGED sessVars

fold(tags) ==
    /\ Len(FoldStack(folds, tags)) <= MaxFolds
    /\ MessageBuffer_fold(tags)
    /\ Track("fold")
    /\ UNCHANGED sessVars

unfold(tags) ==
    /\ Len(UnfoldStack(folds, tags)) <= MaxFolds
    /\ MessageBuffer_unfold(tags)
    /\ Track("unfold")
    /\ UNCHANGED sessVars

expand_enter(tags) ==
    /\ Len(expand_frames) < MaxExpandDepth
    /\ Len(UnfoldStack(folds, tags)) <= MaxFolds
    /\ MessageBuffer_expand_enter(tags)
    /\ Track("expand_enter")
    /\ UNCHANGED sessVars

expand_exit_normal ==
    /\ expand_frames # <<>>
    /\ Len(FoldStack(folds, expand_frames[Len(expand_frames)])) <= MaxFolds
    /\ MessageBuffer_expand_exit_normal
    /\ Track("expand_exit_normal")
    /\ UNCHANGED sessVars

expand_exit_raise ==
    /\ MessageBuffer_expand_exit_raise
    /\ Track("expand_exit_raise")
    /\ UNCHANGED sessVars

\* The sequences of calls the properties are about.
Scenarios ==
    [add_rollback |-> <<"add", "rollback">>,
     add_commit_revert |-> <<"add", "commit", "revert">>,
     commit_revert |-> <<"commit", "revert">>,
     commit2_revert2 |-> <<"commit", "commit", "revert", "revert">>,
     add_commit_twice_revert_twice |->
         <<"add", "commit", "add", "commit", "revert", "revert">>,
     revert |-> <<"revert">>,
     rollback |-> <<"rollback">>]

\* The caller starts one of the sequences in the current state.
begin(name) ==
    /\ script = <<>>
    /\ expand_frames = <<>>
    /\ script' = Scenarios[name]
    /\ scenario' = name
    /\ snap' = BufferState
    /\ UNCHANGED <<bufVars, sessVars, pureVars>>

NextBuffer ==
    \/ \E message \in MessagePool : add(message)
    \/ commit
    \/ rollback
    \/ revert
    \/ clear
    \/ \E tags \in TagArgs : fold(tags)
    \/ \E tags \in TagArgs : unfold(tags)
    \/ \E tags \in TagArgs \ {NoTags} : expand_enter(tags)
    \/ expand_exit_normal
    \/ expand_exit_raise

\* Any calls on a buffer, in any order.
SpecBuffer == InitBuffer /\ [][NextBuffer]_vars

NextTransactions ==
    \/ \E message \in MessagePool : add(message)
    \/ commit
    \/ rollback
    \/ revert
    \/ \E tags \in TagArgs : fold(tags)
    \/ \E tags \in TagArgs : unfold(tags)

\* Any transaction and fold calls, and from any state reached one of the
\* sequences of Scenarios run to its end.
SpecScenario ==
    InitBuffer /\ [][NextTransactions
                     \/ \E name \in DOMAIN Scenarios : begin(name)]_vars

\* The sequence add(m); rollback(), run from any state that add, commit,
\* rollback, revert and fold reach.
NextAddRollback ==
    \/ \E message \in MessagePool : add(message)
    \/ commit
    \/ rollback
    \/ revert
    \/ \E tags \in TagArgs : fold(tags)
    \/ begin("add_rollback")

SpecAddRollback ==
    InitBuffer /\ [][NextAddRollback]_vars

\* The one call rollback(), made in any state that add, commit, rollback,
\* fold and unfold reach.
NextRollback ==
    \/ \E message \in MessagePool : add(message)
    \/ commit
    \/ rollback
    \/ \E tags \in TagArgs : fold(tags)
    \/ \E tags \in TagArgs : unfold(tags)
    \/ begin("rollback")

SpecRollback ==
    InitBuffer /\ [][NextRollback]_vars

----------------------------------------------------------------------------
(* Session (session.py): one call session(input), step by step.  The steps *)
(* are cut where the session waits for the LLM or for a function.          *)

SystemMessage == [role |-> "system", content |-> "system", tags |-> {}]

\* Session.failure_messages, the default: [UserMessage(FAILURE_QUERY)]
failure_messages ==
    <<[role |-> "user", content |-> "failure_query", tags |-> {}]>>

\* AssistantMessage with content
AssistantText == [role |-> "assistant", content |-> "text", tags |-> {}]

\* AssistantMessage with neither content nor function_call
AssistantEmpty == [role |-> "assistant", content |-> None, tags |-> {}]

\* AssistantMessage carrying a function_call (kept beside it in the choice)
AssistantCall ==
    [role |-> "assistant", content |-> "function_call", tags |-> {}]

\* parsers.py _create_error_message for a validation error; the parser names
\* the function by the response model's name
ParsingErrorMessage ==
    [role |-> "function", content |-> "parsing_error",
     tags |-> {Tag("error", "validation"), Tag("error", "function_call"),
               Tag("function", "f_response_response")}]

\* Session._handle_function_call_failure: the message it builds
FailureMessage ==
    [role |-> "function", content |-> "failure",
     tags |-> {Tag("function", FunctionName), Tag("error", "function_call")}]

FunctionCall(arguments, function, parsing_error_messages) ==
    [name |-> FunctionName, arguments |-> arguments, function |-> function,
     parsing_error_messages |-> parsing_error_messages]

Choice(message, function_call, finish_reason) ==
    [message |-> message, function_call |-> function_call,
     finish_reason |-> finish_reason]

\* What the LLM client can answer when functions are offered.
Choices ==
    {Choice(AssistantText, NoFunctionCall, STOP),
     Choice(AssistantText, NoFunctionCall, LENGTH),
     Choice(AssistantEmpty, NoFunctionCall, STOP),
     Choice(AssistantCall, FunctionCall("dict", FunctionName, <<>>),
            FUNCTION_CALL),
     Choice(AssistantCall,
            FunctionCall(None, FunctionName, <<ParsingErrorMessage>>),
            FUNCTION_CALL),
     Choice(AssistantCall, FunctionCall("dict", None, <<>>), STOP)}

\* What it can answer in _complete_failure, where no functions are offered.
FailureChoices ==
    {Choice(AssistantText, NoFunctionCall, STOP), Choice(AssistantText, NoFunctionCall, LENGTH)}

\* What it can answer to the request to repeat a function call.
RepairChoices ==
    {Choice(AssistantCall, FunctionCall("dict", FunctionName, <<>>), STOP),
     Choice(AssistantCall,
            FunctionCall(None, FunctionName, <<ParsingErrorMessage>>), STOP),
     Choice(AssistantText, NoFunctionCall, STOP)}

\* What Dispatcher.dispatch can return: a context and a finish_reason that
\* overrides the choice's unless it is DELEGATE (NopDispatcher: the first).
DispatchCalls ==
    {[context |-> {}, finish_reason |-> DELEGATE],
     [context |-> {FunctionPattern}, finish_reason |-> STOP]}

\* functions.py FunctionCallResult with its __post_init__
FunctionCallResult(value, error, finish_reason) ==
    [value |-> value, error |-> error,
     finish_reason |-> IF error # None /\ finish_reason = FUNCTION_CALL
                       THEN FUNCTION_CALL_ERROR
                       ELSE finish_reason]

\* What a function can hand to execute_function_call: a value, an error, a
\* Result or FunctionCallResult with a finish_reason of its own.
FunctionReturns ==
    {[value |-> "value", error |-> None, finish_reason |-> FUNCTION_CALL],
     [value |-> "value", error |-> None, finish_reason |-> STOP],
     [value |-> "value", error |-> None, finish_reason |-> DELEGATE],
     [value |-> "value", error |-> None,
      finish_reason |-> FUNCTION_CALL_FAILURE],
     [value |-> None, error |-> "Error", finish_reason |-> FUNCTION_CALL],
     [value |-> None, error |-> "Error", finish_reason |-> STOP],
     [value |-> "value", error |-> "Error", finish_reason |-> FUNCTION_CALL]}

LLMExceptions == {"APIError", "KeyboardInterrupt"}
FunctionExceptions == {"RuntimeError"}

\* Session.__post_init__ of a session made with a system message and the
\* default_fold_tags given: a new MessageBuffer with these fold tags, the
\* system message added to pending.
Session_post_init(session_default_fold_tags) ==
    /\ messages = <<>>
    /\ message_states = <<>>
    /\ folds = <<>>
    /\ default_fold_tags = session_default_fold_tags
    /\ transactional_bounds = <<>>
    /\ expand_frames = <<>>
    /\ expand_exit = [how |-> "none", closes |-> 0]
    /\ pending = <<SystemMessage>>
    /\ pending_states = get_fold_states(<<>>, default_fold_tags, pending)
    /\ script = <<>>
    /\ scenario = "none"
    /\ snap = NoSnap
    /\ budget = NoBudget
    /\ parser = NoParse
    /\ registry = InitRegistry
    /\ held = <<>>
    /\ algebra = NoAlgebra
    /\ config \in [autocommit : BOOLEAN, rollback_on_error : BOOLEAN,
                   max_iterations : 1..MaxIterations,
                   max_function_call_attempts : 1..MaxAttempts]
    /\ NotRunning

\* A session made with the default default_fold_tags, which session.py takes
\* from buffer.py.
InitSession == Session_post_init(BufferDefaultFoldTags)

\* An exception e leaves the method running: complete_choices catches
\* Exception, complete_flow catches Exception and KeyboardInterrupt.
RaiseAfter(e, done) ==
    /\ exception' = e
    /\ trace' = [done EXCEPT !.thrown = [exception |-> e,
                                         pending |-> pending]]
    /\ pc' = IF frame = "complete_choices" /\ e # "KeyboardInterrupt"
             THEN "complete_choices_except"
             ELSE "complete_flow_except"

Raise(e) == RaiseAfter(e, trace)

\* Session.commit, called between turns
Session_commit ==
    /\ pc = "idle"
    /\ pending # <<>>
    /\ MessageBuffer_commit
    /\ trace' = [trace EXCEPT !.commits = @ + 1]
    /\ UNCHANGED <<callerVars, config, pc, frame, iteration, attempt, call,
                   choice, function_call_message, call_index, outcome,
                   completion, exception>>

\* Session.__call__ and complete_flow up to its loop
complete_flow(user_input) ==
    /\ pc = "idle"
    /\ IF user_input = NoMessage THEN UNCHANGED bufVars
       ELSE MessageBuffer_add(user_input)
    /\ pc' = "complete_flow"
    /\ iteration' = 0
    /\ trace' = [trace EXCEPT
                   !.start = [messages |-> messages, pending |-> pending],
                   !.added = IF user_input = NoMessage THEN 0 ELSE 1]
    /\ UNCHANGED <<callerVars, config, frame, attempt, call, choice,
                   function_call_message, call_index, outcome, completion,
                   exception>>

\* complete that asks once more than max_iterations allows
complete_choices_past_max_iterations ==
    /\ pc = "complete_flow"
    /\ iteration <= config.max_iterations
    /\ \E dispatch \in DispatchCalls :
           /\ call' = dispatch
           /\ MessageBuffer_expand_enter(TagSet(dispatch.context))
    /\ iteration' = iteration + 1
    /\ frame' = "complete_choices"
    /\ pc' = "generating"
    /\ trace' = [trace EXCEPT !.dispatches = @ + 1]
    /\ UNCHANGED <<callerVars, config, attempt, choice,
                   function_call_message, call_index, outcome, completion,
                   exception>>

\* One more iteration of complete_flow's loop: complete -> complete_choices
\* -> _complete_choices up to the callback inside expand(context)
complete_choices ==
    /\ pc = "complete_flow"
    /\ iteration < config.max_iterations
    /\ \E dispatch \in DispatchCalls :
           /\ call' = dispatch
           /\ MessageBuffer_expand_enter(TagSet(dispatch.context))
    /\ iteration' = iteration + 1
    /\ frame' = "complete_choices"
    /\ pc' = "generating"
    /\ trace' = [trace EXCEPT !.dispatches = @ + 1]
    /\ UNCHANGED <<callerVars, config, attempt, choice,
                   function_call_message, call_index, outcome, completion,
                   exception>>

\* complete_choices of a session whose dispatcher returns
\* DispatchCall(finish_reason=FinishReason.STOP), its context the default
\* empty set.
complete_choices_stop_dispatcher ==
    /\ pc = "complete_flow"
    /\ iteration < config.max_iterations
    /\ call' = [context |-> {}, finish_reason |-> STOP]
    /\ MessageBuffer_expand_enter(TagSet({}))
    /\ iteration' = iteration + 1
    /\ frame' = "complete_choices"
    /\ pc' = "generating"
    /\ trace' = [trace EXCEPT !.dispatches = @ + 1]
    /\ UNCHANGED <<callerVars, config, attempt, choice,
                   function_call_message, call_index, outcome, completion,
                   exception>>

\* complete_flow's loop is used up: _complete_failure up to llm.complete
\* inside expand({TagPattern("error", ".*")})
complete_failure ==
    /\ pc = "complete_flow"
    /\ iteration >= config.max_iterations
    /\ pending' = pending \o failure_messages
    /\ folds' = UnfoldStack(folds, TagSet({ErrorPattern}))
    /\ message_states' = get_fold_states(folds', default_fold_tags, messages)
    /\ pending_states' = get_fold_states(folds', default_fold_tags, pending')
    /\ expand_frames' = Append(expand_frames, TagSet({ErrorPattern}))
    /\ frame' = "complete_failure"
    /\ pc' = "generating"
    /\ trace' = [trace EXCEPT !.failures = @ + 1,
                              !.added = @ + Len(failure_messages)]
    /\ UNCHANGED <<messages, default_fold_tags, transactional_bounds,
                   expand_exit, callerVars, config, iteration, attempt, call,
                   choice, function_call_message, call_index, outcome,
                   completion, exception>>

\* The LLM client returns a response with the one choice c (n_choices is 1
\* unless the caller asks for more): the expand block around the call is
\* left normally.  The client reads the messages by iterating the buffer.
llm_complete_return(c) ==
    /\ pc \in {"generating", "repairing"}
    /\ ~ iter.raised
    /\ c \in (IF pc = "repairing" THEN RepairChoices
              ELSE IF frame = "complete_failure" THEN FailureChoices
              ELSE Choices)
    /\ MessageBuffer_expand_exit_normal
    /\ IF pc = "repairing"
       THEN \* _complete_function_call_error returns choice.message and the
            \* loop of _handle_function_call_message continues
            /\ function_call_message' = c
            /\ attempt' = attempt + 1
            /\ pc' = "function_call"
            /\ UNCHANGED choice
       ELSE /\ choice' = c
            /\ pc' = "handle_choice"
            /\ UNCHANGED <<function_call_message, attempt>>
    /\ UNCHANGED <<callerVars, config, frame, iteration, call, call_index,
                   outcome, completion, exception, trace>>

\* The LLM client raises e: the exception leaves the expand block.
llm_complete_raise(e) ==
    /\ pc \in {"generating", "repairing"}
    /\ MessageBuffer_expand_exit_raise
    /\ Raise(e)
    /\ UNCHANGED <<callerVars, config, frame, iteration, attempt, call,
                   choice, function_call_message, call_index, outcome,
                   completion>>

\* Session._handle_choice: the match on choice.message
handle_choice ==
    /\ pc = "handle_choice"
    /\ IF choice.function_call # NoFunctionCall
       THEN /\ function_call_message' = choice
            /\ attempt' = 1
            /\ pc' = "function_call"
            /\ UNCHANGED <<bufVars, outcome, exception, trace>>
       ELSE IF choice.message.content = None
       THEN /\ Raise("ValueError")
            /\ UNCHANGED <<bufVars, function_call_message, attempt, outcome>>
       ELSE /\ MessageBuffer_add(choice.message)
            /\ outcome' = [message |-> choice.message,
                           finish_reason |-> choice.finish_reason]
            /\ trace' = [trace EXCEPT !.added = @ + 1]
            /\ pc' = "choice_handled"
            /\ UNCHANGED <<function_call_message, attempt, exception>>
    /\ UNCHANGED <<callerVars, config, frame, iteration, call, choice,
                   call_index, completion>>

\* Session._handle_function_call_failure
handle_function_call_failure ==
    [message |-> FailureMessage, finish_reason |-> FAILURE]

\* Session._handle_function_call_message: the head of one pass of its loop,
\* up to the execution of the function, or the return after the loop.
handle_function_call_message ==
    /\ pc = "function_call"
    /\ IF attempt > config.max_function_call_attempts
       THEN /\ outcome' = handle_function_call_failure
            /\ pc' = "function_call_handled"
            /\ UNCHANGED <<bufVars, call_index, exception, trace>>
       ELSE IF function_call_message.function_call = NoFunctionCall
       THEN /\ Raise("ValueError")
            /\ UNCHANGED <<bufVars, call_index, outcome>>
       ELSE LET function_call == function_call_message.function_call
                tagged ==
                    [function_call_message.message EXCEPT
                       !.tags = @ \cup {Tag("function", function_call.name)}]
                added ==
                    function_call.parsing_error_messages \o <<tagged>>
                failed == \/ function_call.arguments = None
                          \/ function_call.function = None
            IN  /\ pending_states' =
                       pending_states
                           \o get_fold_states(folds, default_fold_tags, added)
                /\ pending' =
                       pending \o function_call.parsing_error_messages
                           \o <<IF failed
                                THEN [tagged EXCEPT !.tags =
                                        @ \cup {Tag("error", "function_call")}]
                                ELSE tagged>>
                /\ call_index' = Len(pending')
                /\ trace' = [trace EXCEPT !.added = @ + Len(added)]
                /\ IF failed
                   THEN /\ outcome' = handle_function_call_failure
                        /\ pc' = "function_call_handled"
                   ELSE /\ pc' = "executing"
                        /\ UNCHANGED outcome
                /\ UNCHANGED <<messages, message_states, folds,
                               default_fold_tags, transactional_bounds,
                               expand_frames, expand_exit, exception>>
    /\ UNCHANGED <<callerVars, config, frame, iteration, attempt, call,
                   choice, function_call_message, completion>>

\* _handle_function_call: execute_function_call returns r, and the rest of
\* the pass of _handle_function_call_message's loop.
execute_function_call_return(r) ==
    /\ pc = "executing"
    /\ LET result == FunctionCallResult(r.value, r.error, r.finish_reason)
           function_message ==
               IF result.error = None THEN ResultMessage ELSE ErrorMessage
           produced == [trace EXCEPT !.result = result]
       IN  IF result.error # None /\ result.value # None
           THEN /\ RaiseAfter("ValueError", produced)
                /\ UNCHANGED <<bufVars, outcome>>
           ELSE IF result.finish_reason = FUNCTION_CALL_ERROR
           THEN \* the call message gets the error tag, then
                \* _complete_function_call_error up to llm.complete
                LET error_context ==
                        {from_tag_like(tag) : tag \in function_message.tags}
                    tags == TagSet(call.context \cup error_context)
                IN  /\ pending' =
                           Append([pending EXCEPT ![call_index].tags =
                                     @ \cup {Tag("error", "function_call")}],
                                  function_message)
                    /\ folds' = UnfoldStack(folds, tags)
                    /\ message_states' =
                           get_fold_states(folds', default_fold_tags, messages)
                    /\ pending_states' =
                           get_fold_states(folds', default_fold_tags, pending')
                    /\ expand_frames' = Append(expand_frames, tags)
                    /\ trace' = [produced EXCEPT !.added = @ + 1]
                    /\ pc' = "repairing"
                    /\ UNCHANGED <<messages, default_fold_tags,
                                   transactional_bounds, expand_exit, outcome,
                                   exception>>
           ELSE /\ outcome' = [message |-> function_message,
                               finish_reason |-> result.finish_reason]
                /\ trace' = produced
                /\ pc' = "function_call_handled"
                /\ UNCHANGED <<bufVars, exception>>
    /\ UNCHANGED <<callerVars, config, frame, iteration, attempt, call,
                   choice, function_call_message, call_index, completion>>

\* The function raises something execute_function_call does not catch.
execute_function_call_raise(e) ==
    /\ pc = "executing"
    /\ Raise(e)
    /\ UNCHANGED <<bufVars, callerVars, config, frame, iteration, attempt,
                   call, choice, function_call_message, call_index, outcome,
                   completion>>

\* _handle_choice that returns the function message without adding it to
\* the buffer
handle_choice_function_message_without_add ==
    /\ pc = "function_call_handled"
    /\ UNCHANGED bufVars
    /\ outcome' = [outcome EXCEPT !.finish_reason =
                     IF @ = DELEGATE THEN choice.finish_reason ELSE @]
    /\ UNCHANGED trace
    /\ pc' = "choice_handled"
    /\ UNCHANGED <<callerVars, config, frame, iteration, attempt, call,
                   choice, function_call_message, call_index, completion,
                   exception>>

\* _handle_choice after _handle_function_call_message returned
handle_choice_function_message ==
    /\ pc = "function_call_handled"
    /\ MessageBuffer_add(outcome.message)
    /\ outcome' = [outcome EXCEPT !.finish_reason =
                     IF @ = DELEGATE THEN choice.finish_reason ELSE @]
    /\ trace' = [trace EXCEPT !.added = @ + 1]
    /\ pc' = "choice_handled"
    /\ UNCHANGED <<callerVars, config, frame, iteration, attempt, call,
                   choice, function_call_message, call_index, completion,
                   exception>>

\* _complete_choices that keeps the finish_reason of _handle_choice whatever
\* the DispatchCall says
complete_choices_return_without_override ==
    /\ pc = "choice_handled"
    /\ frame = "complete_choices"
    /\ LET finish_reason == outcome.finish_reason
       IN  IF finish_reason = STOP
           THEN /\ IF config.autocommit THEN MessageBuffer_commit
                   ELSE UNCHANGED bufVars
                /\ trace' = [trace EXCEPT
                               !.resets = @ + 1, !.stops = @ + 1,
                               !.commits = IF config.autocommit THEN @ + 1
                                           ELSE @]
                /\ completion' = [message |-> outcome.message,
                                  finish_reason |-> finish_reason]
                /\ pc' = "done"
           ELSE /\ pc' = "complete_flow"
                /\ UNCHANGED <<bufVars, completion, trace>>
    /\ UNCHANGED <<callerVars, config, frame, iteration, attempt, call,
                   choice, function_call_message, call_index, outcome,
                   exception>>

\* The rest of _complete_choices after _handle_choice, complete taking the
\* first completion, and complete_flow's match on its finish_reason.
complete_choices_return ==
    /\ pc = "choice_handled"
    /\ frame = "complete_choices"
    /\ LET finish_reason == IF call.finish_reason # DELEGATE
                            THEN call.finish_reason
                            ELSE outcome.finish_reason
       IN  IF finish_reason = STOP
           THEN /\ IF config.autocommit THEN MessageBuffer_commit
                   ELSE UNCHANGED bufVars
                /\ trace' = [trace EXCEPT
                               !.resets = @ + 1, !.stops = @ + 1,
                               !.commits = IF config.autocommit THEN @ + 1
                                           ELSE @]
                /\ completion' = [message |-> outcome.message,
                                  finish_reason |-> finish_reason]
                /\ pc' = "done"
           ELSE /\ pc' = "complete_flow"
                /\ UNCHANGED <<bufVars, completion, trace>>
    /\ UNCHANGED <<callerVars, config, frame, iteration, attempt, call,
                   choice, function_call_message, call_index, outcome,
                   exception>>

\* The rest of _complete_failure after _handle_choice
complete_failure_return ==
    /\ pc = "choice_handled"
    /\ frame = "complete_failure"
    /\ IF config.autocommit THEN MessageBuffer_commit ELSE UNCHANGED bufVars
    /\ trace' = [trace EXCEPT !.commits = IF config.autocommit THEN @ + 1
                                          ELSE @]
    /\ completion' = outcome
    /\ pc' = "done"
    /\ UNCHANGED <<callerVars, config, frame, iteration, attempt, call,
                   choice, function_call_message, call_index, outcome,
                   exception>>

\* _handle_exception that leaves the pending segment alone
handle_exception_without_rollback ==
    /\ UNCHANGED <<bufVars, trace>>

\* Session._handle_exception: Session.rollback if rollback_on_error, that
\* is MessageBuffer.rollback and dispatcher.reset; then raise exception
handle_exception ==
    IF config.rollback_on_error
    THEN /\ MessageBuffer_rollback
         /\ trace' = [trace EXCEPT !.resets = @ + 1, !.rollbacks = @ + 1]
    ELSE UNCHANGED <<bufVars, trace>>

\* complete_choices: except Exception as e: self._handle_exception(e)
complete_choices_except ==
    /\ pc = "complete_choices_except"
    /\ handle_exception
    /\ pc' = "complete_flow_except"
    /\ UNCHANGED <<callerVars, config, frame, iteration, attempt, call,
                   choice, function_call_message, call_index, outcome,
                   completion, exception>>

\* complete_flow: except (Exception, KeyboardInterrupt) as e:
\* self._handle_exception(e); the exception reaches the caller
complete_flow_except ==
    /\ pc = "complete_flow_except"
    /\ handle_exception
    /\ pc' = "raised"
    /\ UNCHANGED <<callerVars, config, frame, iteration, attempt, call,
                   choice, function_call_message, call_index, outcome,
                   completion, exception>>

NextSession ==
    \/ Session_commit
    \/ \E user_input \in {NoMessage, UserMessage} : complete_flow(user_input)
    \/ complete_choices
    \/ complete_failure
    \/ \E c \in Choices \cup RepairChoices : llm_complete_return(c)
    \/ \E e \in LLMExceptions : llm_complete_raise(e)
    \/ handle_choice
    \/ handle_function_call_message
    \/ \E r \in FunctionReturns : execute_function_call_return(r)
    \/ \E e \in FunctionExceptions : execute_function_call_raise(e)
    \/ handle_choice_function_message
    \/ complete_choices_return
    \/ complete_failure_return
    \/ complete_choices_except
    \/ complete_flow_except

\* One call session(input) on a new session, its LLM and functions
\* answering in any way.
SpecSession == InitSession /\ [][NextSession]_vars

\* Session.reset, called between turns: MessageBuffer.clear, which makes a
\* new Folds(); add(system_message); add_messages(init_messages), of which
\* the session has none; MessageBuffer.commit; dispatcher.reset.
Session_reset ==
    /\ pc \in {"idle", "done", "raised"}
    /\ folds' = <<>>
    /\ default_fold_tags' = FoldsDefaultFoldTags
    /\ messages' = <<SystemMessage>>
    /\ message_states' =
           get_fold_states(folds', default_fold_tags', <<SystemMessage>>)
    /\ pending' = <<>>
    /\ pending_states' = <<>>
    /\ transactional_bounds' = <<<<0, 1>>>>
    /\ trace' = [trace EXCEPT !.resets = @ + 1, !.commits = @ + 1]
    /\ pc' = "reset"
    /\ UNCHANGED <<expand_frames, expand_exit, callerVars, config, frame,
                   iteration, attempt, call, choice, function_call_message,
                   call_index, outcome, completion, exception>>

\* One call session(input) on a new session, and Session.reset() before or
\* after it.
SpecReset == InitSession /\ [][NextSession \/ Session_reset]_vars

\* A session made with default_fold_tags={TagPattern("error", ".*")}.  One
\* call session(input) on it, its dispatcher also free to end the turn with
\* its finish_reason.
InitSessionFolds == Session_post_init(FoldsDefaultFoldTags)

SpecSessionFolds ==
    InitSessionFolds /\ [][NextSession \/ complete_choices_stop_dispatcher]_vars

----------------------------------------------------------------------------
(* Properties of the message buffer.                                       *)

Finished(name) == scenario = name /\ script = <<>>

\* C1: the fold-state arrays mirror the segments after any sequence of
\* buffer calls: len(message_states) = len(committed) and
\* len(pending_states) = len(pending).
FoldStatesMirrorSegments ==
    /\ Len(message_states) = Len(messages)
    /\ Len(pending_states) = Len(pending)

\* C2: after add(m); commit() the message m is the last committed element
\* and pending is empty, and a following revert() restores the state the
\* buffer had before the add: messages, fold states and bounds.
RevertRestoresPreAdd ==
    /\ (scenario = "add_commit_revert" /\ Len(script) = 1) =>
           /\ pending = <<>>
           /\ \E m \in MessagePool :
                  messages = snap.messages \o snap.pending \o <<m>>
    /\ Finished("add_commit_revert") => BufferState = snap

\* C3 as stated: after add(m); rollback() the buffer equals its state
\* before the add, whatever the pending segment held.
AddRollbackRestores ==
    Finished("add_rollback") => BufferState = snap

\* C3 amended: after add(m); rollback() the committed segment, its fold
\* states, the bounds and the fold stack are as before the add and the
\* pending segment and its fold states are empty; so the buffer equals its
\* state before the add when that state had nothing pending.
AddRollbackRestoresCommitted ==
    Finished("add_rollback") =>
        /\ BufferState = [snap EXCEPT !.pending = <<>>,
                                      !.pending_states = <<>>]
        /\ snap.pending = <<>> => BufferState = snap

\* C3 witness: add(m); rollback() was run on a buffer with committed
\* messages and nothing pending.
AddRollbackDone ==
    /\ Finished("add_rollback")
    /\ snap.messages # <<>>
    /\ snap.pending = <<>>

\* C33: rollback() changes only the pending segment: the committed
\* messages, their fold states, the transactional bounds and the fold
\* stack are as before the call, and pending and pending_states are empty.
RollbackFrame ==
    Finished("rollback") =>
        /\ messages = snap.messages
        /\ message_states = snap.message_states
        /\ transactional_bounds = snap.transactional_bounds
        /\ folds = snap.folds
        /\ pending = <<>>
        /\ pending_states = <<>>

\* rollback() was called on a buffer with committed and pending messages,
\* transactional bounds and a fold stack that is not empty.
RollbackDone ==
    /\ Finished("rollback")
    /\ snap.messages # <<>>
    /\ snap.pending # <<>>
    /\ snap.transactional_bounds # <<>>
    /\ snap.folds # <<>>

\* C4: k commits followed by k reverts leave the buffer as it was before
\* them; add(m1); commit(); add(m2); commit(); revert(); revert() on an
\* empty buffer leaves the committed segment and the bound stack empty and
\* the fold stack as it was.
RevertsCompose ==
    /\ Finished("commit_revert") => BufferState = snap
    /\ Finished("commit2_revert2") => BufferState = snap
    /\ ( /\ Finished("add_commit_twice_revert_twice")
         /\ snap.messages = <<>>
         /\ snap.pending = <<>>
         /\ snap.transactional_bounds = <<>> ) =>
           /\ messages = <<>>
           /\ transactional_bounds = <<>>
           /\ folds = snap.folds

\* The committed-then-pending messages whose stored state is UNFOLDED.
RECURSIVE Visible(_, _)
Visible(msgs, states) ==
    IF msgs = <<>> THEN <<>>
    ELSE (IF states # <<>> /\ Head(states) = "UNFOLDED"
          THEN <<Head(msgs)>> ELSE <<>>)
         \o Visible(Tail(msgs), IF states = <<>> THEN <<>> ELSE Tail(states))

\* C5: in every reachable state iterating the buffer yields exactly the
\* messages whose stored fold state is Unfolded, committed first, then
\* pending, in insertion order, and len(buffer) counts all messages.
IterationVisibility ==
    /\ iter = [items |-> Visible(messages, message_states)
                            \o Visible(pending, pending_states),
               raised |-> FALSE]
    /\ len = Len(messages) + Len(pending)

\* C9: the close step of expand(tags) has run exactly once when the block
\* has been left, also when the block raised.
ExpandClosesOnce ==
    expand_exit.how # "none" => expand_exit.closes = 1

----------------------------------------------------------------------------
(* Properties of the session.                                              *)

\* The call has come back to the caller, with a Completion or an exception.
Returned == pc = "done"
Raised == pc = "raised"

HasErrorTag(message) == \E tag \in message.tags : tag.key = "error"

\* C6: a call in which no LLM call and no function raises either returns a
\* Completion with finish_reason STOP made by the main loop or invokes
\* _complete_failure exactly once; never both, and _complete_failure is
\* never invoked more than once.
StopOrFailureOnce ==
    /\ trace.failures <= 1
    /\ ~ (trace.failures > 0 /\ trace.stops > 0)
    /\ ( /\ Returned \/ Raised
         /\ exception \notin LLMExceptions \cup FunctionExceptions ) =>
           \/ /\ Returned
              /\ frame = "complete_choices"
              /\ completion.finish_reason = STOP
              /\ trace.failures = 0
           \/ trace.failures = 1

\* The call is under way.
Running == pc \notin {"idle", "done", "raised"}

\* Steps one pass of _handle_choice can still take, counted from the end:
\* each pass of the loop of _handle_function_call_message takes at most four.
StepsOfChoice ==
    LET passes == config.max_function_call_attempts + 1
    IN  CASE pc = "generating" -> 4 * passes + 6
          [] pc = "handle_choice" -> 4 * passes + 5
          [] pc = "function_call" -> 4 * (passes - attempt) + 4
          [] pc = "executing" -> 4 * (passes - attempt) + 3
          [] pc = "repairing" -> 4 * (passes - attempt) + 2
          [] pc = "function_call_handled" -> 3
          [] OTHER -> 2

\* Steps the whole call can still take: the iterations left in
\* complete_flow, then _complete_failure, then the exception handlers.
StepsLeft ==
    LET width == 4 * (config.max_function_call_attempts + 1) + 7
        left == config.max_iterations - iteration + 1
    IN  CASE pc \in {"done", "raised"} -> 0
          [] pc = "complete_flow_except" -> 1
          [] pc = "complete_choices_except" -> 2
          [] pc = "complete_flow" -> left * width + 2
          [] pc = "idle" -> left * width + 3
          [] frame = "complete_failure" -> 2 + StepsOfChoice
          [] OTHER -> left * width + 1 + StepsOfChoice

\* C7: dispatcher.dispatch is invoked at most max_iterations times in a
\* call, and the call comes back to the caller when every LLM call and
\* function call returns or raises: the LLM client is always handed a
\* buffer it can iterate, and every step of the call brings the bounded
\* count StepsLeft down, so the call cannot go on for ever.
NeverPastMaxIterations ==
    /\ [](trace.dispatches <= config.max_iterations)
    /\ [](StepsLeft >= 0)
    /\ [](pc \in {"generating", "repairing"} =>
             (expand_frames # <<>> /\ ~ iter.raised))
    /\ [][Running => StepsLeft' < StepsLeft]_vars

\* C7 witness: a call returned after its loop ran max_iterations (> 1) times.
LoopRanToTheCap ==
    /\ Returned
    /\ config.max_iterations > 1
    /\ trace.dispatches = config.max_iterations

\* C8: when an exception reaches the caller it is the exception that was
\* raised; with rollback_on_error the pending segment is empty and the
\* committed segment is as it was when the call began; without it the
\* pending segment holds what it held when the exception was raised, the
\* messages pending before the call followed by every message added
\* during the call.
ExceptionReachesCaller ==
    Raised =>
        /\ exception = trace.thrown.exception
        /\ config.rollback_on_error =>
               /\ pending = <<>>
               /\ pending_states = <<>>
               /\ messages = trace.start.messages
        /\ ~ config.rollback_on_error =>
               /\ pending = trace.thrown.pending
               /\ Len(pending) = Len(trace.start.pending) + trace.added
               /\ SubSeq(pending, 1, Len(trace.start.pending))
                      = trace.start.pending

\* C8 witness: an exception raised by a function reached the caller of a
\* session that rolls back, with messages committed before the call and
\* messages pending when it was raised.
RolledBackAfterFunctionRaised ==
    /\ Raised
    /\ exception \in FunctionExceptions
    /\ config.rollback_on_error
    /\ messages # <<>>
    /\ trace.thrown.pending # <<>>

\* C10: in every failure path of a call (argument-parse failure, function
\* call attempts used up, iteration cap reached) the message returned to
\* the caller is a FunctionMessage or an AssistantMessage with a tag whose
\* key is "error".
FailureReturnsErrorTagged ==
    ( /\ Returned
      /\ \/ trace.failures > 0
         \/ completion.finish_reason = FAILURE ) =>
        /\ completion.message.role \in {"function", "assistant"}
        /\ HasErrorTag(completion.message)

----------------------------------------------------------------------------
(* Fold and unfold calls whose argument is remembered.                     *)

\* How a tags argument is written in a call.
ArgName(tags) ==
    CASE tags = NoTags -> "None"
      [] tags = TagSet({}) -> "set()"
      [] tags = TagSet({ErrorPattern}) -> "{error}"
      [] OTHER -> "function|error"

FoldCall(tags) == "fold(" \o ArgName(tags) \o ")"
UnfoldCall(tags) == "unfold(" \o ArgName(tags) \o ")"
PairName(tags) == FoldCall(tags) \o ";" \o UnfoldCall(tags)

\* B.fold(tags), the caller remembering the call and the state before it.
\* The stack may hold one entry more than MaxFolds, so that the two calls
\* of a pair fit.
call_fold(tags) ==
    /\ script = <<>>
    /\ Len(FoldStack(folds, tags)) <= MaxFolds + 1
    /\ MessageBuffer_fold(tags)
    /\ scenario' = FoldCall(tags)
    /\ snap' = BufferState
    /\ UNCHANGED <<script, sessVars, pureVars>>

\* B.unfold(tags); when the call before it was B.fold(tags) the two make
\* the pair fold(tags); unfold(tags) and the remembered state is the one
\* before the pair.
call_unfold(tags) ==
    /\ script = <<>>
    /\ Len(UnfoldStack(folds, tags)) <= MaxFolds + 1
    /\ MessageBuffer_unfold(tags)
    /\ IF scenario = FoldCall(tags)
       THEN /\ scenario' = PairName(tags)
            /\ UNCHANGED snap
       ELSE /\ scenario' = UnfoldCall(tags)
            /\ snap' = BufferState
    /\ UNCHANGED <<script, sessVars, pureVars>>

NextFolds ==
    \/ \E message \in MessagePool : add(message)
    \/ commit
    \/ rollback
    \/ \E tags \in TagArgs : call_fold(tags)
    \/ \E tags \in TagArgs : call_unfold(tags)

\* add, commit, rollback, fold and unfold calls in any order.
SpecFolds == InitBuffer /\ [][NextFolds]_vars

\* C11: B.fold(t); B.unfold(t) leaves the fold state of every message,
\* committed and pending, as it was before the pair, for every fold stack
\* and every tags argument t.
FoldUnfoldKeepsStates ==
    \A t \in TagArgs :
        scenario = PairName(t) =>
            /\ message_states = snap.message_states
            /\ pending_states = snap.pending_states

\* Every message of msgs whose tags satisfy p has the state given.
AllMatching(p, msgs, states, state) ==
    \A i \in 1..Len(msgs) :
        Holds(derive_tag_predicate(p), msgs[i].tags) => states[i] = state

\* Every message of msgs that satisfies no entry of the fold stack has the
\* state the default fold gives it.
UnmatchedKeepDefault(msgs, states) ==
    \A i \in 1..Len(msgs) :
        (\A k \in 1..Len(folds) : ~ Holds(folds[k].predicate, msgs[i].tags))
            => states[i] = FirstMatch(<<default_folds(default_fold_tags)>>,
                                      msgs[i].tags, "UNFOLDED")

\* C12: right after unfold(p) every message whose tags satisfy p is
\* UNFOLDED, right after fold(p) every such message is FOLDED, and the
\* messages that match no entry of the fold stack have the default-fold
\* state.
MatchingFollowLastCall ==
    /\ \A p \in {t \in TagArgs : Truthy(t)} :
           /\ scenario = FoldCall(p) =>
                  /\ AllMatching(p, messages, message_states, "FOLDED")
                  /\ AllMatching(p, pending, pending_states, "FOLDED")
           /\ scenario \in {UnfoldCall(p), PairName(p)} =>
                  /\ AllMatching(p, messages, message_states, "UNFOLDED")
                  /\ AllMatching(p, pending, pending_states, "UNFOLDED")
    /\ UnmatchedKeepDefault(messages, message_states)
    /\ UnmatchedKeepDefault(pending, pending_states)

\* with B.expand(tags): the block is entered; the caller remembers the call
\* and the state before it.
ExpandCall(tags) == "expand(" \o ArgName(tags) \o ")"
ExpandLeft(tags) == ExpandCall(tags) \o " left"

call_expand_enter(tags) ==
    /\ script = <<>>
    /\ expand_frames = <<>>
    /\ Len(UnfoldStack(folds, tags)) <= MaxFolds + 1
    /\ MessageBuffer_expand_enter(tags)
    /\ scenario' = ExpandCall(tags)
    /\ snap' = BufferState
    /\ UNCHANGED <<script, sessVars, pureVars>>

\* The block, which does not touch the buffer, ends normally.
call_expand_exit ==
    /\ script = <<>>
    /\ expand_frames # <<>>
    /\ MessageBuffer_expand_exit_normal
    /\ scenario' = ExpandLeft(expand_frames[Len(expand_frames)])
    /\ UNCHANGED <<script, snap, sessVars, pureVars>>

NextExpand ==
    \/ \E message \in MessagePool : expand_frames = <<>> /\ add(message)
    \/ commit
    \/ rollback
    \/ \E tags \in TagArgs : expand_frames = <<>> /\ call_fold(tags)
    \/ \E tags \in TagArgs : expand_frames = <<>> /\ call_unfold(tags)
    \/ \E tags \in TagArgs \ {NoTags} : call_expand_enter(tags)
    \/ call_expand_exit

\* add, commit, rollback, fold and unfold calls in any order, and expand
\* blocks that are left normally.
SpecExpand == InitBuffer /\ [][NextExpand]_vars

\* C34: after a normal exit of the block of expand(tags) every message has
\* the fold state it had right before the block was entered, and the fold
\* stack is not longer than it was, for every fold stack and every tags
\* argument, the empty set included.
ExpandScoped ==
    \A t \in TagArgs \ {NoTags} :
        scenario = ExpandLeft(t) =>
            /\ message_states = snap.message_states
            /\ pending_states = snap.pending_states
            /\ Len(folds) <= Len(snap.folds)

\* Two entries of the fold stack hold the same predicate object or two
\* predicate objects that are one operator over the same components (the
\* lambdas made for sets of tags are all different objects).
SamePredicate(i, j) ==
    /\ IsCallable(folds[i].predicate)
    /\ folds[i].predicate = folds[j].predicate

\* C37: after any fold, unfold and expand calls the fold stack holds no
\* entry (p, FOLDED) together with (p, UNFOLDED) for one predicate p, and
\* no entry twice.
NoContradictingEntries ==
    \A i, j \in 1..Len(folds) :
        (i < j /\ SamePredicate(i, j)) =>
            /\ folds[i].state = folds[j].state
            /\ folds[i] # folds[j]

\* The state the default fold gives a message.
DefaultState(message) ==
    IF Holds(derive_tag_predicate(default_fold_tags), message.tags)
    THEN "FOLDED" ELSE "UNFOLDED"

\* The entries of the fold stack whose predicate the message satisfies.
MatchingEntries(message) ==
    {k \in 1..Len(folds) : Holds(folds[k].predicate, message.tags)}

\* The state of the newest matching entry, or the default-fold state.
Resolved(message) ==
    LET matching == MatchingEntries(message)
    IN  IF matching = {} THEN DefaultState(message)
        ELSE folds[CHOOSE k \in matching : \A j \in matching : j <= k].state

\* C32: the state of every message is the state of the newest entry of the
\* fold stack whose predicate its tags satisfy, and without such an entry
\* FOLDED when the default-fold predicate matches and UNFOLDED otherwise;
\* after fold(None) or unfold(None) the stack is empty and every message
\* has its default-fold state.
FoldResolution ==
    /\ Len(message_states) = Len(messages)
    /\ Len(pending_states) = Len(pending)
    /\ \A i \in 1..Len(messages) : message_states[i] = Resolved(messages[i])
    /\ \A i \in 1..Len(pending) : pending_states[i] = Resolved(pending[i])
    /\ scenario \in {FoldCall(NoTags), UnfoldCall(NoTags), PairName(NoTags)} =>
           /\ folds = <<>>
           /\ \A i \in 1..Len(messages) :
                  message_states[i] = DefaultState(messages[i])
           /\ \A i \in 1..Len(pending) :
                  pending_states[i] = DefaultState(pending[i])

\* A message satisfies two entries of the stack that disagree, and has the
\* state of the newer one, which is not its default-fold state.
NewestEntryDecides ==
    \E i \in 1..Len(pending) :
        /\ Len(folds) = 2
        /\ MatchingEntries(pending[i]) = {1, 2}
        /\ folds[1].state # folds[2].state
        /\ pending_states[i] = folds[2].state
        /\ pending_states[i] # DefaultState(pending[i])

----------------------------------------------------------------------------
(* Token budgeting (llm/budgeting/token_counter.py).  The functions are    *)
(* called on lists of messages.                                            *)

MaxInput == 3
MaxThreshold == 10
MaxCompletionBuffer == 2

\* class Overhead(IntEnum)
Overhead ==
    [MESSAGE_NAME |-> -1, MESSAGE_INSTANCE |-> 4, SYSTEM_ROLE |-> -4,
     FUNCTION_ROLE |-> -2, FUNCTION_CALL |-> 3, FUNCTION_NAME |-> 4,
     FUNCTION_DEFINITION |-> 8, NONE_FUNCTION_CALL |-> 1, COMPLETION |-> 3]

\* The rendering of the one function f by OpenAIFunctionFormatter
FunctionsFormatted == "namespace functions"

\* count_tokens_in_string: the length of the tiktoken encoding, for the
\* strings of the model
count_tokens_in_string(string) ==
    CASE string = "Hi" -> 1
      [] string = "Hello there" -> 2
      [] string = FunctionName -> 1
      [] string = "{}" -> 1
      [] string = FunctionsFormatted -> 4

\* get_tokens: nothing for None and for the empty string
get_tokens(string, overhead) ==
    IF string = None \/ string = ""
    THEN 0
    ELSE count_tokens_in_string(string) + overhead

\* An AssistantMessage with a function_call f({}) and no content
IsFunctionCallMessage(message) ==
    message.role = "assistant" /\ message.content = "function_call"

\* _calculate_tokens_in_message: the match on the message, then the content
_calculate_tokens_in_message(message) ==
    (CASE message.role = "system" -> Overhead.SYSTEM_ROLE
       [] message.role = "function" ->
              get_tokens(FunctionName, Overhead.MESSAGE_NAME)
       [] IsFunctionCallMessage(message) ->
              get_tokens(FunctionName, 0) + get_tokens("{}", 0)
                  + Overhead.FUNCTION_CALL
       [] OTHER -> 0)
    + get_tokens(IF IsFunctionCallMessage(message) THEN None
                 ELSE message.content,
                 Overhead.MESSAGE_INSTANCE)

RECURSIVE SumTokens(_)
\* sum(_iterate_tokens_in_messages(messages, model))
SumTokens(msgs) ==
    IF msgs = <<>> THEN 0
    ELSE _calculate_tokens_in_message(Head(msgs)) + SumTokens(Tail(msgs))

calculate_tokens_in_messages(msgs) ==
    IF msgs = <<>> THEN 0 ELSE SumTokens(msgs) + Overhead.COMPLETION

calculate_tokens_in_functions(functions) ==
    IF functions = <<>> THEN 0 ELSE get_tokens(FunctionsFormatted, 0)

\* calculate_tokens with function_call left at AUTO
calculate_tokens(msgs, functions) ==
    calculate_tokens_in_messages(msgs)
        + (IF functions # <<>> THEN calculate_tokens_in_functions(functions)
           ELSE 0)

RECURSIVE KeepIndices(_, _, _)
\* [message for i, message in enumerate(messages) if i in indices]
KeepIndices(msgs, indices, n) ==
    IF n = 0 THEN <<>>
    ELSE KeepIndices(msgs, indices, n - 1)
             \o (IF n \in indices THEN <<msgs[n]>> ELSE <<>>)

\* truncate_messages_or_buffer, step 1
excluded_indices(msgs, exclude_tags) ==
    {i \in 1..Len(msgs) :
         Holds(derive_tag_predicate(exclude_tags), msgs[i].tags)}

\* truncate_messages_or_buffer, step 2
base_tokens(msgs, completion_buffer, functions, excluded) ==
    completion_buffer
        + (IF excluded # {}
           THEN calculate_tokens_in_messages(
                    KeepIndices(msgs, excluded, Len(msgs)))
           ELSE 0)
        + (IF functions # <<>> THEN calculate_tokens_in_functions(functions)
           ELSE 0)

RECURSIVE truncated_indices(_, _, _, _, _)
\* truncate_messages_or_buffer, step 3: the eligible indices from the last
\* down to i, tokens counted so far
truncated_indices(msgs, excluded, i, tokens, max_usable_tokens) ==
    IF i = 0 THEN {}
    ELSE IF i \in excluded
    THEN truncated_indices(msgs, excluded, i - 1, tokens, max_usable_tokens)
    ELSE LET message_tokens == _calculate_tokens_in_message(msgs[i])
         IN  IF tokens + message_tokens <= max_usable_tokens
             THEN {i} \cup truncated_indices(msgs, excluded, i - 1,
                                             tokens + message_tokens,
                                             max_usable_tokens)
             ELSE {}

\* step 4 that forgets the excluded messages
indices_to_keep_without_excluded(truncated, excluded) == truncated

\* truncate_messages_or_buffer, step 4
indices_to_keep(truncated, excluded) == truncated \cup excluded

\* truncate_messages_or_buffer: whether it raises ValueError, and the list
\* it returns
truncate_messages_or_buffer(msgs, token_threshold, completion_buffer, functions, exclude_tags) ==
    LET max_usable_tokens == token_threshold - completion_buffer
        excluded == excluded_indices(msgs, exclude_tags)
        base == base_tokens(msgs, completion_buffer, functions, excluded)
        truncated == truncated_indices(msgs, excluded, Len(msgs), base,
                                       max_usable_tokens)
    IN  IF base > max_usable_tokens
        THEN [raised |-> TRUE, result |-> <<>>]
        ELSE [raised |-> FALSE,
              result |-> KeepIndices(msgs,
                                     indices_to_keep(truncated, excluded),
                                     Len(msgs))]

\* The default of exclude_tags: lambda _: False
NeverExclude == [kind |-> "false", pats |-> {}]

InitialPattern == TagPattern("kind", "initial")

ExcludeArgs == {NeverExclude, TagSet({InitialPattern})}

\* Messages handed to the budgeting functions.
BudgetMessages ==
    {[role |-> "system", content |-> "", tags |-> {Tag("kind", "initial")}],
     [role |-> "user", content |-> "Hi", tags |-> {Tag("kind", "initial")}],
     [role |-> "user", content |-> "Hi", tags |-> {}],
     [role |-> "user", content |-> "Hello there", tags |-> {}],
     AssistantCall}

MessageLists(n) == UNION {[1..k -> BudgetMessages] : k \in 0..n}

FunctionLists == {<<>>, <<FunctionName>>}

\* The caller calls truncate_messages.
call_truncate_messages(msgs, token_threshold, completion_buffer, functions, exclude_tags) ==
    /\ budget.op = "none"
    /\ LET outcome_ == truncate_messages_or_buffer(
                           msgs, token_threshold, completion_buffer,
                           functions, exclude_tags)
       IN  budget' = [op |-> "truncate_messages", messages |-> msgs,
                      token_threshold |-> token_threshold,
                      completion_buffer |-> completion_buffer,
                      functions |-> functions,
                      exclude_tags |-> exclude_tags,
                      raised |-> outcome_.raised,
                      result |-> outcome_.result,
                      tokens |-> 0, previous |-> 0]
    /\ UNCHANGED <<bufVars, script, scenario, snap, sessVars, parser, registry,
                   held, algebra>>

\* The caller calls calculate_tokens(M, F).
call_calculate_tokens(msgs, functions) ==
    /\ budget.op = "none"
    /\ budget' = [NoBudget EXCEPT !.op = "calculate_tokens",
                                  !.messages = msgs,
                                  !.functions = functions,
                                  !.tokens = calculate_tokens(msgs, functions)]
    /\ UNCHANGED <<bufVars, script, scenario, snap, sessVars, parser, registry,
                   held, algebra>>

\* The caller then calls calculate_tokens(M + [m], F).
call_calculate_tokens_appended(message) ==
    /\ budget.op = "calculate_tokens"
    /\ Len(budget.messages) < MaxInput
    /\ budget' = [budget EXCEPT
                    !.op = "calculate_tokens_appended",
                    !.messages = Append(@, message),
                    !.tokens = calculate_tokens(Append(budget.messages,
                                                       message),
                                                budget.functions),
                    !.previous = budget.tokens]
    /\ UNCHANGED <<bufVars, script, scenario, snap, sessVars, parser, registry,
                   held, algebra>>

\* The caller is done with the result.
discard_budget ==
    /\ budget.op # "none"
    /\ budget' = NoBudget
    /\ UNCHANGED <<bufVars, script, scenario, snap, sessVars, parser, registry,
                   held, algebra>>

\* The caller truncates some list of messages under some budget.
caller_truncates ==
    /\ budget.op = "none"
    /\ \E msgs \in MessageLists(MaxInput),
          token_threshold \in 0..MaxThreshold,
          completion_buffer \in 0..MaxCompletionBuffer,
          functions \in FunctionLists, exclude_tags \in ExcludeArgs :
           call_truncate_messages(msgs, token_threshold, completion_buffer,
                                  functions, exclude_tags)

\* The caller counts the tokens of some list of messages.
caller_counts ==
    /\ budget.op = "none"
    /\ \E msgs \in MessageLists(MaxInput - 1), functions \in FunctionLists :
           call_calculate_tokens(msgs, functions)

NextBudget ==
    \/ caller_truncates
    \/ caller_counts
    \/ \E message \in BudgetMessages : call_calculate_tokens_appended(message)
    \/ discard_budget

\* Calls of the budgeting functions on any inputs.
SpecBudget == InitBuffer /\ [][NextBudget]_vars

----------------------------------------------------------------------------
(* Properties of the budgeting functions.                                  *)

\* truncate_messages has returned a list to the caller.
TruncateReturned == budget.op = "truncate_messages" /\ ~ budget.raised

\* The message is protected by the exclude_tags of the call.
Protected(message) ==
    Holds(derive_tag_predicate(budget.exclude_tags), message.tags)

\* The protected messages of a list, and the others, in the list's order.
ProtectedOf(msgs) == SelectSeq(msgs, Protected)
NonProtected(message) == ~ Protected(message)
NonProtectedOf(msgs) == SelectSeq(msgs, NonProtected)

\* tokens(protected) + tokens(functions) + completion_buffer of the call
BaseOfCall ==
    calculate_tokens_in_messages(ProtectedOf(budget.messages))
        + calculate_tokens_in_functions(budget.functions)
        + budget.completion_buffer

\* C13: when truncate returns, calculate_tokens of the returned messages
\* is at most threshold - completion_buffer.
TruncatedWithinBudget ==
    TruncateReturned =>
        calculate_tokens(budget.result, <<>>)
            <= budget.token_threshold - budget.completion_buffer

RECURSIVE IsSubsequence(_, _)
IsSubsequence(sub, seq) ==
    IF sub = <<>> THEN TRUE
    ELSE IF seq = <<>> THEN FALSE
    ELSE IF Head(sub) = Head(seq)
         THEN IsSubsequence(Tail(sub), Tail(seq))
         ELSE IsSubsequence(sub, Tail(seq))

\* C14: when truncate returns, every input message whose tags satisfy
\* exclude_tags is in the output, and the output is a subsequence of the
\* input, so protected and retained messages keep their relative order.
ProtectedKeptInOrder ==
    TruncateReturned =>
        /\ ProtectedOf(budget.result) = ProtectedOf(budget.messages)
        /\ IsSubsequence(budget.result, budget.messages)

\* C14 witness: truncate returned a list that keeps a protected message,
\* drops a message that came after it and keeps one that is not protected.
ProtectedSurvivedTruncation ==
    /\ TruncateReturned
    /\ Len(budget.result) < Len(budget.messages)
    /\ ProtectedOf(budget.messages) # <<>>
    /\ NonProtectedOf(budget.result) # <<>>
    /\ NonProtected(budget.messages[Len(budget.messages)])

\* C15: truncate fails with the budget-too-tight error when
\* base = tokens(protected) + tokens(functions) + completion_buffer is over
\* the threshold and returns a list otherwise; with no messages and
\* completion_buffer <= threshold it returns the empty list.
FailsIffBaseOverThreshold ==
    budget.op = "truncate_messages" =>
        /\ budget.raised <=> BaseOfCall > budget.token_threshold
        /\ ( /\ budget.messages = <<>>
             /\ budget.functions = <<>>
             /\ budget.completion_buffer <= budget.token_threshold ) =>
               (~ budget.raised /\ budget.result = <<>>)

RECURSIVE RetainedByRule(_, _, _)
\* How many of the messages msgs the walk from newest to oldest retains
\* when total tokens are counted already and the walk stops at the first
\* message that makes the count exceed the threshold.
RetainedByRule(msgs, total, threshold) ==
    IF msgs = <<>> THEN 0
    ELSE LET this_message ==
                 _calculate_tokens_in_message(msgs[Len(msgs)])
         IN  IF total + this_message <= threshold
             THEN 1 + RetainedByRule(SubSeq(msgs, 1, Len(msgs) - 1),
                                     total + this_message, threshold)
             ELSE 0

\* C16: walking the non-protected messages from newest to oldest, a message
\* is retained iff base + running_total + this_message <= threshold and
\* the walk stops at the first message that does not fit; the retained
\* non-protected messages are that suffix of the non-protected sequence.
SelectionFollowsRule ==
    TruncateReturned =>
        LET eligible == NonProtectedOf(budget.messages)
            retained == RetainedByRule(eligible, BaseOfCall,
                                       budget.token_threshold)
        IN  NonProtectedOf(budget.result)
                = SubSeq(eligible, Len(eligible) - retained + 1,
                         Len(eligible))

\* C17: calculate_tokens(M + [m], F) >= calculate_tokens(M, F) for every
\* list M, every message m and every function list F.
TokensMonotone ==
    budget.op = "calculate_tokens_appended" =>
        budget.tokens >= budget.previous

----------------------------------------------------------------------------
(* Properties of the bound stack, of dispatcher.reset and of function      *)
(* call results.                                                           *)

\* C18: every commit pushes exactly one bound (s, e) with s = len(committed)
\* before the commit and e = s + len(pending); each bound starts at or
\* after the end of the bound below it and the top bound ends at
\* len(committed); revert pops exactly one bound of a stack that has one
\* and changes nothing when the stack is empty.
BoundStackGrowsAndPops ==
    /\ \A i \in 1..Len(transactional_bounds) :
           /\ transactional_bounds[i][1] <= transactional_bounds[i][2]
           /\ i > 1 => transactional_bounds[i][1]
                           >= transactional_bounds[i - 1][2]
    /\ transactional_bounds # <<>> =>
           transactional_bounds[Len(transactional_bounds)][2] = Len(messages)
    /\ (scenario = "commit_revert" /\ Len(script) = 1) =>
           transactional_bounds =
               Append(snap.transactional_bounds,
                      <<Len(snap.messages),
                        Len(snap.messages) + Len(snap.pending)>>)
    /\ Finished("commit_revert") =>
           transactional_bounds = snap.transactional_bounds
    /\ Finished("revert") =>
           IF snap.transactional_bounds = <<>>
           THEN BufferState = snap
           ELSE transactional_bounds =
                    SubSeq(snap.transactional_bounds, 1,
                           Len(snap.transactional_bounds) - 1)

\* C19: whenever control is with the caller, every commit and every
\* rollback the session has made was accompanied by a dispatcher.reset().
ResetWithEveryCommitOrRollback ==
    ~ Running => trace.resets >= trace.commits + trace.rollbacks

\* C20: every FunctionCallResult made by executing a function has exactly
\* one of value and error, and when it has an error its finish_reason is
\* FUNCTION_CALL_ERROR whatever finish_reason the function supplied.
ResultHasValueOrCoercedError ==
    trace.result # NoResult =>
        /\ (trace.result.value # None) # (trace.result.error # None)
        /\ trace.result.error # None =>
               trace.result.finish_reason = FUNCTION_CALL_ERROR

----------------------------------------------------------------------------
(* LLMParser (io/parsers.py): parse with repair.                           *)

MaxLLMs == 2
MaxRetries == 2
MaxRequests == 4

\* Values of the target type A(b: str, c: int) of the parser tests, and an
\* object that lacks the field c.
Expected == [b |-> "test", c |-> 99]
Corrected == [b |-> "test", c |-> 1]
MissingField == [b |-> "test"]

\* Payloads the model emits as the arguments of a function call.
JsonPayload == "{\"b\": \"test\", \"c\": 99}"
YamlPayload == "b: test\nc: 99"
MissingFieldPayload == "{\"b\": \"test\"}"
MalformedPayload == "{\"b\": "

Payloads == {JsonPayload, YamlPayload, MissingFieldPayload, MalformedPayload}

\* Arguments the repair LLM returns for the wrapper function response_wrapper,
\* whose only parameter is payload.
ExpectedReply == "{\"payload\": {\"b\": \"test\", \"c\": 99}}"
CorrectedReply == "{\"payload\": {\"b\": \"test\", \"c\": 1}}"
MissingFieldReply == "{\"payload\": {\"b\": \"test\"}}"

Replies == {ExpectedReply, CorrectedReply, MissingFieldReply}

\* json.loads(payload, strict=False) on the strings of the model.
json_loads(payload) ==
    CASE payload = JsonPayload -> [ok |-> TRUE, value |-> Expected]
      [] payload = MissingFieldPayload -> [ok |-> TRUE, value |-> MissingField]
      [] payload = ExpectedReply ->
            [ok |-> TRUE, value |-> [payload |-> Expected]]
      [] payload = CorrectedReply ->
            [ok |-> TRUE, value |-> [payload |-> Corrected]]
      [] payload = MissingFieldReply ->
            [ok |-> TRUE, value |-> [payload |-> MissingField]]
      [] OTHER -> [ok |-> FALSE, value |-> NoObject]

\* yaml.load(payload): what JSON reads, and the block mapping.
yaml_load(payload) ==
    IF payload = YamlPayload
    THEN [ok |-> TRUE, value |-> Expected]
    ELSE json_loads(payload)

\* LLMParser._deserialize: the deserializers in order, the first that
\* succeeds wins; when none does the error of json.loads is raised.
_deserialize(payload) ==
    IF json_loads(payload).ok THEN json_loads(payload)
    ELSE IF yaml_load(payload).ok THEN yaml_load(payload)
    ELSE [ok |-> FALSE, value |-> NoObject]

\* The two unwrap_response functions: the one _parse_with_retry starts with
\* and the one _complete_invalid_payload returns.
unwrap_response(which, response) ==
    IF which = "payload" THEN response.payload ELSE response

\* TypeAdapter(A).validate_python(obj)
validate_python(obj) ==
    IF DOMAIN obj = {"b", "c"}
    THEN [ok |-> TRUE, value |-> obj]
    ELSE [ok |-> FALSE, value |-> NoObject]

\* The try block of _parse_with_retry: deserialize, unwrap, validate.
TryBlock(payload, which) ==
    IF ~ _deserialize(payload).ok
    THEN [ok |-> FALSE, value |-> NoObject, error |-> "deserialization"]
    ELSE LET obj == unwrap_response(which, _deserialize(payload).value)
         IN  IF validate_python(obj).ok
             THEN [ok |-> TRUE, value |-> validate_python(obj).value,
                   error |-> "none"]
             ELSE [ok |-> FALSE, value |-> NoObject, error |-> "validation"]

\* parsers.py disable_parser up to its yield: a parser that is set is
\* taken off the LLM.
disable_parser_enter(llm_parser) == None

\* disable_parser after its yield, when the block ended normally: the
\* parser taken off is put back; an LLM without a parser is left as it is.
disable_parser_exit(llm_parser, taken) ==
    IF taken # None THEN taken ELSE llm_parser

\* parsers.py _create_error_message
_create_error_message(name, payload, error) ==
    [role |-> "function", content |-> <<error, payload>>,
     tags |-> {Tag("error", error), Tag("error", "function_call"),
               Tag("function", name)}]

\* f"{type.__name__}_response" for the response model of function f
ResponseName == "f_response_response"

\* LLMParser(llms, max_retries).parse(payload, type): _parse_with_retry up
\* to the first pass of its loops.  llm_parser is the parser attribute of
\* the LLMs of the list: an LLMParser of their own, or None.
call_parse(payload, llms, max_retries, llm_parser) ==
    /\ parser.pc = "idle"
    /\ parser' = [NoParse EXCEPT
                    !.pc = IF llms = 0 THEN "no_llm" ELSE "try",
                    !.llms = llms, !.max_retries = max_retries,
                    !.input = payload, !.payload = payload,
                    !.llm = IF llms = 0 THEN 0 ELSE 1,
                    !.llm_parser = llm_parser,
                    !.llm_parser_given = llm_parser]
    /\ UNCHANGED <<bufVars, script, scenario, snap, sessVars, budget,
                   registry, held, algebra>>

\* The caller parses some payload with some parser.
caller_parses ==
    /\ parser.pc = "idle"
    /\ \E payload \in Payloads, llms \in 0..MaxLLMs,
          max_retries \in 0..MaxRetries, llm_parser \in {"LLMParser", None} :
           call_parse(payload, llms, max_retries, llm_parser)

\* One pass of `for _ in range(self.max_retries)` whose try block succeeds.
parse_with_retry_try ==
    /\ parser.pc = "try"
    /\ parser.retry < parser.max_retries
    /\ TryBlock(parser.payload, parser.unwrap_response).ok
    /\ parser' = [parser EXCEPT
                    !.parsed = TryBlock(parser.payload,
                                        parser.unwrap_response).value,
                    !.retry = @ + 1]
    /\ UNCHANGED <<bufVars, script, scenario, snap, sessVars, budget,
                   registry, held, algebra>>

\* One pass whose try block fails: _complete_invalid_payload is called and
\* sends its request to the LLM.
parse_with_retry_except ==
    /\ parser.pc = "try"
    /\ parser.retry < parser.max_retries
    /\ ~ TryBlock(parser.payload, parser.unwrap_response).ok
    /\ parser' = [parser EXCEPT
                    !.pc = "completing",
                    !.exception = TryBlock(parser.payload,
                                           parser.unwrap_response).error,
                    !.requests = @ + 1,
                    !.llm_parser = disable_parser_enter(@)]
    /\ UNCHANGED <<bufVars, script, scenario, snap, sessVars, budget,
                   registry, held, algebra>>

\* The LLM answers with a function call that has arguments:
\* _complete_invalid_payload returns them, and the pass ends with the new
\* payload, the new unwrap_response and one more error message.
complete_invalid_payload_return(arguments) ==
    /\ parser.pc = "completing"
    /\ parser' = [parser EXCEPT
                    !.pc = "try",
                    !.payload = arguments,
                    !.unwrap_response = "payload",
                    !.error_messages =
                        Append(@, _create_error_message(
                                      ResponseName, parser.payload,
                                      parser.exception)),
                    !.corrections = Append(@, arguments),
                    !.exception = "none",
                    !.retry = @ + 1,
                    !.llm_parser =
                        disable_parser_exit(@, parser.llm_parser_given)]
    /\ UNCHANGED <<bufVars, script, scenario, snap, sessVars, budget,
                   registry, held, algebra>>

\* The LLM answers with a function call whose arguments are None:
\* _complete_invalid_payload calls itself, which sends another request
\* (the parser is put back after the first and taken off for the second).
complete_invalid_payload_recurse ==
    /\ parser.pc = "completing"
    /\ parser.requests < MaxRequests
    /\ parser' = [parser EXCEPT
                    !.requests = @ + 1,
                    !.llm_parser =
                        disable_parser_enter(
                            disable_parser_exit(@, parser.llm_parser_given))]
    /\ UNCHANGED <<bufVars, script, scenario, snap, sessVars, budget,
                   registry, held, algebra>>

\* The LLM answers without a function call: _handle_choice raises.
complete_invalid_payload_raise ==
    /\ parser.pc = "completing"
    /\ parser' = [parser EXCEPT
                    !.pc = "raised", !.raised = "ValueError",
                    !.llm_parser =
                        disable_parser_exit(@, parser.llm_parser_given)]
    /\ UNCHANGED <<bufVars, script, scenario, snap, sessVars, budget,
                   registry, held, algebra>>

\* llm.complete raises e inside the block of disable_parser: the exception
\* is thrown into the generator at its yield, which has no try/finally
\* around it, so the statement after the yield is not run; no except
\* clause of _parse_with_retry catches e.
complete_invalid_payload_llm_raise(e) ==
    /\ parser.pc = "completing"
    /\ parser' = [parser EXCEPT !.pc = "raised", !.raised = e]
    /\ UNCHANGED <<bufVars, script, scenario, snap, sessVars, budget,
                   registry, held, algebra>>

\* The inner loop is over: `return parsed, error_messages`.
parse_with_retry_return ==
    /\ parser.pc = "try"
    /\ parser.retry = parser.max_retries
    /\ parser' = [parser EXCEPT
                    !.pc = "returned",
                    !.result = [parsed |-> parser.parsed,
                                error_messages |-> parser.error_messages]]
    /\ UNCHANGED <<bufVars, script, scenario, snap, sessVars, budget,
                   registry, held, algebra>>

\* The list of LLMs is empty: `return None, error_messages`.
parse_with_retry_no_llm ==
    /\ parser.pc = "no_llm"
    /\ parser' = [parser EXCEPT
                    !.pc = "returned",
                    !.result = [parsed |-> NoObject,
                                error_messages |-> parser.error_messages]]
    /\ UNCHANGED <<bufVars, script, scenario, snap, sessVars, budget,
                   registry, held, algebra>>

\* The caller is done with the outcome of parse.
discard_parse ==
    /\ parser.pc \in {"returned", "raised"}
    /\ parser' = NoParse
    /\ UNCHANGED <<bufVars, script, scenario, snap, sessVars, budget,
                   registry, held, algebra>>

NextParser ==
    \/ caller_parses
    \/ parse_with_retry_try
    \/ parse_with_retry_except
    \/ \E arguments \in Replies : complete_invalid_payload_return(arguments)
    \/ complete_invalid_payload_recurse
    \/ complete_invalid_payload_raise
    \/ parse_with_retry_return
    \/ parse_with_retry_no_llm
    \/ discard_parse

\* Calls of LLMParser.parse on any payload, with any replies of the LLM.
SpecParser == InitBuffer /\ [][NextParser]_vars

\* As SpecParser, with LLMs whose requests may also fail.
SpecParserErrors ==
    InitBuffer
        /\ [][NextParser
                 \/ \E e \in LLMExceptions :
                        complete_invalid_payload_llm_raise(e)]_vars

ParseReturned == parser.pc = "returned"

\* C21: parse sends at most max_retries repair requests to an LLM (all the
\* requests of the model go to the LLM in use, so at most max_retries *
\* len(llms) in total), it returns rather than raises, and when no payload
\* ever validated it returns None with the error chain.
ParseAttemptsCapped ==
    /\ parser.requests <= parser.max_retries
    /\ parser.requests <= parser.max_retries * parser.llms
    /\ parser.pc # "raised"
    /\ (ParseReturned /\ parser.parsed = NoObject) =>
           parser.result = [parsed |-> NoObject,
                            error_messages |-> parser.error_messages]

\* C22: parsing the JSON serialization of a value x of the target type
\* returns x with an empty error chain and sends no request to an LLM.
ParseRoundTrip ==
    (ParseReturned /\ parser.input = JsonPayload) =>
        /\ parser.result.parsed = Expected
        /\ parser.result.error_messages = <<>>
        /\ parser.requests = 0

\* C30: when the initial payload fails and a correction deserializes and
\* validates (it is the first to do so, since no correction is asked for
\* after it, and at most the max_retries-th), parse returns the value of
\* that correction with one error message per correction received.
RepairReturnsCorrection ==
    LET k == Len(parser.corrections)
    IN  (/\ ParseReturned
         /\ parser.max_retries >= 1
         /\ ~ TryBlock(parser.input, "identity").ok
         /\ k >= 1
         /\ TryBlock(parser.corrections[k], "payload").ok) =>
            /\ k <= parser.max_retries
            /\ parser.result.parsed =
                   TryBlock(parser.corrections[k], "payload").value
            /\ Len(parser.result.error_messages) = k

\* C31: when every pass with one LLM failed (the payload left by the last
\* pass still does not parse), the parser goes on with the next LLM of its
\* list: it returns None only when the LLM in use is the last of the list.
FallbackLLMsTried ==
    (/\ ParseReturned
     /\ parser.max_retries >= 1
     /\ Len(parser.error_messages) = parser.max_retries
     /\ ~ TryBlock(parser.payload, parser.unwrap_response).ok) =>
        /\ parser.result.parsed = NoObject
        /\ parser.llm = parser.llms

\* C39: while the repair request is with the LLM its parser is disabled,
\* and after the request the LLM has the parser it had before, also when
\* the request raised.
ParserDisabledThenRestored ==
    /\ parser.pc = "completing" => parser.llm_parser = None
    /\ parser.pc \in {"try", "returned", "raised"} =>
           parser.llm_parser = parser.llm_parser_given

----------------------------------------------------------------------------
(* Tag objects, their colours and the predicate registry (tags.py,         *)
(* io/renderers.py TagRenderer).                                           *)

MaxTags == 2

\* TagRenderer.key_registry is a set of <<key, color>> pairs here.
InRegistry(key_registry, key) == \E e \in key_registry : e[1] = key

RegisteredColor(key_registry, key) ==
    (CHOOSE e \in key_registry : e[1] = key)[2]

\* deque.remove(color)
RemoveColor(colors, color) == SelectSeq(colors, LAMBDA c : c # color)

\* TagRenderer.get_color: the colour and what is left of the deque.
get_color(reg, key) ==
    IF InRegistry(reg.key_registry, key)
    THEN [color |-> RegisteredColor(reg.key_registry, key),
          colors |-> reg.colors]
    ELSE LET full == IF reg.colors = <<>> THEN TagColor ELSE reg.colors
         IN  [color |-> Head(full), colors |-> Tail(full)]

\* TagRenderer.register_key
register_key(reg, key, color) ==
    IF InRegistry(reg.key_registry, key) THEN reg
    ELSE [reg EXCEPT !.key_registry = @ \cup {<<key, color>>},
                     !.colors = RemoveColor(@, color)]

\* Tag.set_color, the validator of the field color (group_colors_by_key is
\* True): the colour of the tag and the class state afterwards.
set_color(reg, key, color) ==
    LET got == IF color = "None"
               THEN get_color(reg, key)
               ELSE [color |-> color, colors |-> reg.colors]
    IN  [color |-> got.color,
         registry |-> register_key([reg EXCEPT !.colors = got.colors],
                                   key, got.color)]

\* Tag(key, value, color): a frozen dataclass of three compared fields.
NewTag(reg, key, value, color) ==
    [tag |-> [key |-> key, value |-> value,
              color |-> set_color(reg, key, color).color],
     registry |-> set_color(reg, key, color).registry]

\* Operands of the predicate algebra: a Tag, a TagPattern, or an operator
\* object over predicates.
TagOperand(tag) == [kind |-> "Tag", of |-> tag]
PatternOperand(tag_pattern) == [kind |-> "TagPattern", of |-> tag_pattern]
IsTagLike(operand) == operand.kind \in {"Tag", "TagPattern"}

\* PredicateRegistry.derive_predicate: the function registered under the
\* operand.  _predicates is a dict keyed by the operand (dataclass equality
\* and hash), so the function is known by its key.
derive_predicate(operand) ==
    [kind |-> IF operand.kind = "Tag" THEN "is_in_tags"
              ELSE "matches_any_tag",
     of |-> operand.of]

\* PredicateRegistry.register_predicate on the class state
register_predicate(reg, operand) ==
    [reg EXCEPT !.predicates = @ \cup {operand}]

\* Keys and values of the tags of tests/messages/test_tags.py.
TagKeys == {"a", "b"}
TagValues == {"1", "2"}
ColorArgs == {"None", "blue"}

\* The caller makes a tag.
make_tag(key, value, color) ==
    /\ Len(held) < MaxTags
    /\ held' = Append(held, [tag |-> NewTag(registry, key, value, color).tag,
                             predicate |-> NoObject])
    /\ registry' = NewTag(registry, key, value, color).registry
    /\ UNCHANGED <<bufVars, script, scenario, snap, sessVars, budget, parser,
                   algebra>>

\* The caller derives the predicate of a tag it holds.
call_derive_predicate(i) ==
    /\ i \in DOMAIN held
    /\ held[i].predicate = NoObject
    /\ held' = [held EXCEPT
                  ![i].predicate = derive_predicate(TagOperand(held[i].tag))]
    /\ registry' = register_predicate(registry, TagOperand(held[i].tag))
    /\ UNCHANGED <<bufVars, script, scenario, snap, sessVars, budget, parser,
                   algebra>>

NextTags ==
    \/ \E key \in TagKeys, value \in TagValues, color \in ColorArgs :
           make_tag(key, value, color)
    \/ \E i \in 1..MaxTags : call_derive_predicate(i)

\* Tags made with any colours, and their predicates.
SpecTags == InitBuffer /\ [][NextTags]_vars

\* C24: two tags with the same key and value are equal, are one element of
\* a set, and derive the same predicate instance, whatever their colours.
TagsInterchangeable ==
    \A i, j \in DOMAIN held :
        (/\ held[i].tag.key = held[j].tag.key
         /\ held[i].tag.value = held[j].tag.value) =>
            /\ held[i].tag = held[j].tag
            /\ Cardinality({held[i].tag, held[j].tag}) = 1
            /\ (held[i].predicate # NoObject /\ held[j].predicate # NoObject)
                   => held[i].predicate = held[j].predicate

----------------------------------------------------------------------------
(* The predicate algebra (tags.py _PredicateOperator, _And, _Or, _Not and  *)
(* the operators of Tag and TagPattern).                                   *)

\* _And(*predicates), _Or(*predicates), _Not(*predicates)
Operator(kind, predicates) == [kind |-> kind, predicates |-> predicates]

\* Tag.__or__ / __and__, TagPattern.__or__ / __and__ and
\* _PredicateOperator.__or__ / __and__: a Tag or TagPattern operand is
\* replaced by its registry predicate, an operator object is taken as it is.
Compose(kind, a, b) ==
    [raised |-> "none",
     value |-> Operator(kind,
                        <<IF IsTagLike(a) THEN derive_predicate(a) ELSE a,
                          IF IsTagLike(b) THEN derive_predicate(b) ELSE b>>)]

\* ~a: TagPattern.__invert__ and _PredicateOperator.__invert__; Tag defines
\* no __invert__, so Python raises TypeError for it.
Invert(a) ==
    CASE a.kind = "Tag" -> [raised |-> "TypeError", value |-> NoObject]
      [] a.kind = "TagPattern" ->
            [raised |-> "none",
             value |-> Operator("_Not", <<derive_predicate(a)>>)]
      [] OTHER -> [raised |-> "none", value |-> Operator("_Not", <<a>>)]

RECURSIVE Call(_, _)
\* predicate(tags): is_in_tags, matches_any_tag, _And.__call__,
\* _Or.__call__ and _Not.__call__.
Call(predicate, tags) ==
    CASE predicate.kind = "is_in_tags" -> predicate.of \in tags
      [] predicate.kind = "matches_any_tag" ->
            matches_any_tag(predicate.of, tags)
      [] predicate.kind = "_And" ->
            \A i \in DOMAIN predicate.predicates :
                Call(predicate.predicates[i], tags)
      [] predicate.kind = "_Or" ->
            \E i \in DOMAIN predicate.predicates :
                Call(predicate.predicates[i], tags)
      [] predicate.kind = "_Not" ->
            ~ \E i \in DOMAIN predicate.predicates :
                  Call(predicate.predicates[i], tags)

\* a(S) for an operand a: the predicate derived from a Tag or TagPattern,
\* or the operator object itself.
CallOperand(a, tags) ==
    IF IsTagLike(a) THEN Call(derive_predicate(a), tags) ELSE Call(a, tags)

\* The operands whose predicate is looked up in the registry when a and b
\* are composed.
Derived(operands) == {x \in operands : IsTagLike(x)}

\* Tags of the model in the order the caller makes them, without a colour
\* argument.
TagSpecs == <<<<"a", "1">>, <<"b", "2">>, <<"a", "2">>>>

RECURSIVE MakeTags(_, _)
\* The caller makes the tags: their objects and the class state afterwards.
MakeTags(reg, specs) ==
    IF specs = <<>> THEN [tags |-> <<>>, registry |-> reg]
    ELSE LET first == NewTag(reg, specs[1][1], specs[1][2], "None")
             rest == MakeTags(first.registry, Tail(specs))
         IN  [tags |-> <<first.tag>> \o rest.tags, registry |-> rest.registry]

\* Tags, patterns, and what one operator makes of two of them.
Atoms(made) ==
    {TagOperand(made[1]), TagOperand(made[2]),
     PatternOperand(TagPattern("a", ".*"))}

Composites(made) ==
    {Compose(kind, a, b).value :
        kind \in {"_Or", "_And"}, a \in Atoms(made), b \in Atoms(made)}
    \cup {Invert(a).value : a \in {x \in Atoms(made) : x.kind # "Tag"}}

Operands(made) == Atoms(made) \cup Composites(made)

TagSets(made) == SUBSET {made[i] : i \in DOMAIN made}

\* The caller evaluates (a | b)(S) or (a & b)(S).
call_binary(kind, a, b, S, reg) ==
    /\ algebra.op = "none"
    /\ algebra' = [op |-> kind, a |-> a, b |-> b, tags |-> S,
                   raised |-> Compose(kind, a, b).raised,
                   value |-> Call(Compose(kind, a, b).value, S)]
    /\ registry' = [reg EXCEPT !.predicates = @ \cup Derived({a, b})]
    /\ UNCHANGED <<bufVars, script, scenario, snap, sessVars, budget, parser,
                   held>>

\* The caller evaluates (~a)(S).
call_invert(a, S, reg) ==
    /\ algebra.op = "none"
    /\ algebra' = [op |-> "_Not", a |-> a, b |-> NoObject, tags |-> S,
                   raised |-> Invert(a).raised,
                   value |-> IF Invert(a).raised = "none"
                             THEN Call(Invert(a).value, S) ELSE FALSE]
    /\ registry' = [reg EXCEPT
                      !.predicates = @ \cup {x \in {a} : x.kind = "TagPattern"}]
    /\ UNCHANGED <<bufVars, script, scenario, snap, sessVars, budget, parser,
                   held>>

\* The caller is done with the value.
discard_algebra ==
    /\ algebra.op # "none"
    /\ algebra' = NoAlgebra
    /\ UNCHANGED <<bufVars, script, scenario, snap, sessVars, budget, parser,
                   registry, held>>

\* The caller makes its tags, composes two operands, one of them a tag or
\* a pattern, and calls the result on a set of tags.
caller_composes ==
    /\ algebra.op = "none"
    /\ LET made == MakeTags(registry, TagSpecs)
       IN  \E kind \in {"_Or", "_And"}, a \in Operands(made.tags),
              b \in Operands(made.tags), S \in TagSets(made.tags) :
               /\ (a \in Atoms(made.tags) \/ b \in Atoms(made.tags))
               /\ call_binary(kind, a, b, S, made.registry)

\* The caller makes its tags, inverts an operand and calls the result.
caller_inverts ==
    /\ algebra.op = "none"
    /\ LET made == MakeTags(registry, TagSpecs)
       IN  \E a \in Operands(made.tags), S \in TagSets(made.tags) :
               call_invert(a, S, made.registry)

NextAlgebra ==
    \/ caller_composes
    \/ caller_inverts
    \/ discard_algebra

\* Predicate expressions over tags and patterns, called on any set of tags.
SpecAlgebra == InitBuffer /\ [][NextAlgebra]_vars

\* C25: (a | b)(S) = a(S) or b(S), (a & b)(S) = a(S) and b(S) and
\* (~a)(S) = not a(S) for every operand a, b and every set S of tags.
PredicateAlgebra ==
    /\ algebra.op = "_Or" =>
           /\ algebra.raised = "none"
           /\ algebra.value = (CallOperand(algebra.a, algebra.tags)
                               \/ CallOperand(algebra.b, algebra.tags))
    /\ algebra.op = "_And" =>
           /\ algebra.raised = "none"
           /\ algebra.value = (CallOperand(algebra.a, algebra.tags)
                               /\ CallOperand(algebra.b, algebra.tags))
    /\ algebra.op = "_Not" =>
           /\ algebra.raised = "none"
           /\ algebra.value = ~ CallOperand(algebra.a, algebra.tags)

\* id(p) for p in operator.predicates: a registry predicate is one object
\* per tag or pattern, so it is known by what it was derived from.
ComponentIds(operator) ==
    {operator.predicates[i] : i \in DOMAIN operator.predicates}

\* _PredicateOperator.__eq__ for two operator objects
Operator__eq__(p, q) == ComponentIds(p) = ComponentIds(q)

\* Expressions of one operator over tags and patterns: a | b, a & b, ~a.
Expressions(made) ==
    {[kind |-> kind, operands |-> <<a, b>>] :
        kind \in {"_Or", "_And"}, a \in Atoms(made), b \in Atoms(made)}
    \cup {[kind |-> "_Not", operands |-> <<a>>] :
             a \in {x \in Atoms(made) : x.kind # "Tag"}}

\* The operator object an expression evaluates to.
Evaluate(expression) ==
    IF expression.kind = "_Not"
    THEN Invert(expression.operands[1]).value
    ELSE Compose(expression.kind, expression.operands[1],
                 expression.operands[2]).value

\* The caller evaluates p == q for two expressions, and has S at hand to
\* call p and q on.
call_compare(p, q, S, reg) ==
    /\ algebra.op = "none"
    /\ algebra' = [op |-> "==", a |-> Evaluate(p), b |-> Evaluate(q),
                   tags |-> S, raised |-> "none",
                   value |-> Operator__eq__(Evaluate(p), Evaluate(q))]
    /\ registry' =
           [reg EXCEPT !.predicates =
              @ \cup Derived({p.operands[i] : i \in DOMAIN p.operands})
                \cup Derived({q.operands[i] : i \in DOMAIN q.operands})]
    /\ UNCHANGED <<bufVars, script, scenario, snap, sessVars, budget, parser,
                   held>>

\* The caller makes its tags and compares two expressions over them.
caller_compares ==
    /\ algebra.op = "none"
    /\ LET made == MakeTags(registry, TagSpecs)
       IN  \E p \in Expressions(made.tags), q \in Expressions(made.tags),
              S \in TagSets(made.tags) :
               call_compare(p, q, S, made.registry)

NextEquality ==
    \/ caller_compares
    \/ discard_algebra

\* Comparisons of predicate expressions.
SpecEquality == InitBuffer /\ [][NextEquality]_vars

\* C38: two predicates that compare equal, and so are one entry for the
\* fold stack, give the same value on every set S of tags; a & b and a | b
\* over the same components are therefore not equal.
EqualPredicatesAgree ==
    (algebra.op = "==" /\ algebra.value) =>
        Call(algebra.a, algebra.tags) = Call(algebra.b, algebra.tags)

----------------------------------------------------------------------------
(* Properties of the session: dispatch, failure and function calls.        *)

Buffer == messages \o pending

InBuffer(message) == \E i \in DOMAIN Buffer : Buffer[i] = message

\* C26: once _handle_function_call_failure has made its message (arguments
\* or function reference None, or the attempts used up) the main loop
\* dispatches and generates no more, and the call returns through
\* _complete_failure (unless the DispatchCall of that pass overrides the
\* finish_reason).
FailureIsTerminal ==
    /\ (pc = "generating" /\ frame = "complete_choices") =>
           ~ InBuffer(FailureMessage)
    /\ (Returned /\ InBuffer(FailureMessage)
                 /\ call.finish_reason = DELEGATE) => trace.failures = 1

\* C27: the function of a choice is executed in a pass of the loop of
\* _handle_function_call_message, of which there are at most
\* max_function_call_attempts; and when the executions of a choice all
\* returned an error (the last one did), its handling ends with the
\* message of _handle_function_call_failure, tagged (error, function_call).
ExecutionsCappedThenFailure ==
    /\ pc = "executing" => attempt <= config.max_function_call_attempts
    /\ (pc = "function_call_handled" /\ trace.result # NoResult
                                     /\ trace.result.error # None) =>
           /\ outcome = handle_function_call_failure
           /\ Tag("error", "function_call") \in outcome.message.tags

\* C28: with autocommit the user message is committed when the first model
\* call of the turn is made, and is still there when that call has raised.
UserMessageCommittedFirst ==
    /\ (config.autocommit /\ pc = "generating" /\ trace.dispatches = 1
                          /\ trace.added = 1) =>
           /\ pending = <<>>
           /\ \E i \in DOMAIN messages : messages[i] = UserMessage
    /\ (config.autocommit /\ Raised /\ trace.dispatches = 1
                          /\ trace.added = 1 /\ attempt = 0
                          /\ exception \in LLMExceptions) =>
           \E i \in DOMAIN messages : messages[i] = UserMessage

\* An assistant message that carries a function call, and a FunctionMessage
\* of the called function.
IsCallMessage(message) ==
    message.role = "assistant" /\ message.content = AssistantCall.content

IsFunctionMessageOf(message, name) ==
    message.role = "function" /\ Tag("function", name) \in message.tags

CallsAnswered ==
    \A i \in DOMAIN Buffer :
        IsCallMessage(Buffer[i]) =>
            /\ i < Len(Buffer)
            /\ IsFunctionMessageOf(Buffer[i + 1], FunctionName)

StatesCurrent ==
    /\ Len(message_states) = Len(messages)
    /\ Len(pending_states) = Len(pending)
    /\ \A i \in 1..Len(messages) : message_states[i] = Resolved(messages[i])
    /\ \A i \in 1..Len(pending) : pending_states[i] = Resolved(pending[i])

\* C35: whenever the buffer is iterated, at every LLM call of a turn and
\* after session(input) has returned, the stored fold state of every
\* message is the state computed from its tags as they are now under the
\* fold stack as it is now, also for the call messages that got the tag
\* (error, function_call) after they were added.
StoredStatesCurrent ==
    (pc \in {"generating", "repairing"} \/ Returned) => StatesCurrent

\* C36: when a call session(input) raises with rollback_on_error on, the
\* first call after construction included, the system message the session
\* was made with is still in the buffer.
SystemMessageSurvivesErrors ==
    (Raised /\ config.rollback_on_error) => InBuffer(SystemMessage)

\* C40: after Session.reset() the buffer holds exactly the system message
\* (the session has no init_messages), the transactional bounds and the
\* fold stack are as after construction, and the fold states are computed
\* with the default_fold_tags the session was made with, as in a new
\* session.
ResetAsConstructed ==
    pc = "reset" =>
        /\ Buffer = <<SystemMessage>>
        /\ transactional_bounds = <<>>
        /\ folds = <<>>
        /\ default_fold_tags = BufferDefaultFoldTags
        /\ message_states \o pending_states =
               get_fold_states(<<>>, BufferDefaultFoldTags, Buffer)

====
